---- MODULE Spec2Model ----
(***************************************************************************)
(* A model of mockredis.client.MockRedis (src/mockredis/client.py).       *)
(*                                                                         *)
(* The engine's state is the two dictionaries of the object, self.redis   *)
(* (key -> value) and self.timeouts (key -> expiry instant), and the      *)
(* instant the pluggable clock reports.  Every emulated command is a pure *)
(* operator from the dictionaries and the arguments to an outcome (the    *)
(* dictionaries after the call, the returned value, the raised error);    *)
(* an action runs one command and records the call in `last`.  A         *)
(* blocking pop is the one command that takes several steps: it suspends  *)
(* in time.sleep, and `blocking` holds its local variables meanwhile.     *)
(* `scanning` is the loop of a caller that pages through a collection.    *)
(*                                                                         *)
(* Python values are tagged records [t, v]: t is the Python type and v    *)
(* the contents.  A dict is a function whose DOMAIN is its key set.       *)
(* Instants and durations (datetime, timedelta) are integers counting     *)
(* microseconds, the resolution of both types.                            *)
(***************************************************************************)
EXTENDS Integers, Sequences, FiniteSets, TLC

VARIABLES
    redis,      \* self.redis: key -> stored value
    timeouts,   \* self.timeouts: key -> expiry instant (microseconds)
    now,        \* self.clock.now() (microseconds)
    strict,     \* self.strict: the calling convention chosen at construction
    last,       \* the last call: command, keys named, arguments, return, error
    blocking_timeout,         \* self.blocking_timeout (seconds)
    blocking_sleep_interval,  \* self.blocking_sleep_interval (hundredths of a second)
    wall,       \* time.time() (hundredths of a second)
    blocking,   \* the blocking pop suspended in time.sleep, if any
    scanning,   \* the caller's loop over the pages of a scan, if any
    aliases     \* the groups of keys that self.redis binds to one set object

config == <<strict, blocking_timeout, blocking_sleep_interval>>
caller == <<wall, blocking, scanning>>
vars == <<redis, timeouts, now, last, config, caller, aliases>>

----------------------------------------------------------------------------
(* Bounds of the model                                                     *)

MaxLen == 3         \* longest list a push may build
MaxCounter == 1     \* largest integer incr may store
MaxScore == 2       \* largest score zincrby may store
MaxTicks == 1       \* clock advances in a behaviour of Spec
MaxFineTicks == 3   \* clock advances in a behaviour of SpecTTL
MaxQueued == 2      \* elements in the lists of SpecB
MaxWall == 100      \* latest time (hundredths of a second) a blocking pop of SpecB begins

(* Units of datetime / timedelta                                           *)
UsPerSec == 1000000
UsPerMs == 1000

(* The constructor's defaults: blocking_timeout=1000 (seconds) and         *)
(* blocking_sleep_interval=0.01 (seconds), the unit of `wall`.             *)
DefaultBlockingTimeout == 1000
WallPerSec == 100

Keys == {"k1", "k2"}

----------------------------------------------------------------------------
(* Python values                                                           *)

None == [t |-> "None", v |-> 0]
IntV(n) == [t |-> "int", v |-> n]
BoolV(b) == [t |-> "bool", v |-> b]
StrV(s) == [t |-> "string", v |-> s]
ListV(l) == [t |-> "list", v |-> l]
SetV(s) == [t |-> "set", v |-> s]
HashV(h) == [t |-> "hash", v |-> h]
ZSetV(z) == [t |-> "zset", v |-> z]

TupleV(x) == [t |-> "tuple", v |-> x]
(* A non-empty list of (member, score) tuples, and the list of members and *)
(* scores in turn it is flattened to.                                      *)
TuplesV(l) == [t |-> "tuples", v |-> l]
FlatV(l) == [t |-> "flat", v |-> l]
(* A float that is no whole number: v + 1/2.                               *)
FloatV(x) == [t |-> "float", v |-> x]

NoError == "ok"

EmptyDict == <<>>
Put(D, k, x) == [y \in (DOMAIN D) \cup {k} |-> IF y = k THEN x ELSE D[y]]
Del(D, k) == [y \in (DOMAIN D) \ {k} |-> D[y]]

(* What a command did: the dictionaries when it returned or raised, the    *)
(* value returned (None when it raised) and the error raised.              *)
Outcome(R, T, ret, err) == [redis |-> R, timeouts |-> T, ret |-> ret, err |-> err]

(* Python truth value of an object (`if x:` / `if not x:`).                *)
Truthy(x) ==
    CASE x.t = "None" -> FALSE
      [] x.t = "bool" -> x.v
      [] x.t = "int" -> x.v # 0
      [] x.t = "string" -> x.v # ""
      [] x.t = "list" -> x.v # <<>>
      [] x.t = "set" -> x.v # {}
      [] x.t = "hash" -> DOMAIN x.v # {}
      [] x.t = "zset" -> DOMAIN x.v # {}

(* str(n) and long(s) for the integers incr and decr store.                *)
Numerals == <<"-1", "0", "1", "2", "3", "4">>
IsNumeral(s) == \E i \in DOMAIN Numerals : Numerals[i] = s
long(s) == (CHOOSE i \in DOMAIN Numerals : Numerals[i] = s) - 2
str(n) == Numerals[n + 2]

----------------------------------------------------------------------------
(* Keys functions                                                          *)

type(R, key) == IF key \notin DOMAIN R THEN "none" ELSE R[key].t

exists(R, key) == key \in DOMAIN R

RECURSIVE delete_loop(_, _, _, _)
delete_loop(R, T, keys, key_counter) ==
    IF keys = <<>> THEN Outcome(R, T, IntV(key_counter), NoError)
    ELSE LET key == Head(keys)
             R2 == IF key \in DOMAIN R THEN Del(R, key) ELSE R
             n2 == IF key \in DOMAIN R THEN key_counter + 1 ELSE key_counter
             T2 == IF key \in DOMAIN T THEN Del(T, key) ELSE T
         IN delete_loop(R2, T2, Tail(keys), n2)

(* Variant of delete that leaves the TTL registry alone: the value goes,  *)
(* the expiry entry stays.                                                 *)
delete_keeps_timeouts(R, T, keys) ==
    LET o == delete_loop(R, T, keys, 0)
    IN Outcome(o.redis, T, o.ret, o.err)

delete(R, T, keys) == delete_loop(R, T, keys, 0)

(* Variant of _expire without the test for the key: an absent key gets an *)
(* expiry entry too.                                                       *)
_expire_unguarded(R, T, clock, key, delta) ==
    Outcome(R, Put(T, key, clock + delta), BoolV(TRUE), NoError)

_expire(R, T, clock, key, delta) ==
    IF key \notin DOMAIN R THEN Outcome(R, T, BoolV(FALSE), NoError)
    ELSE Outcome(R, Put(T, key, clock + delta), BoolV(TRUE), NoError)

expire(R, T, clock, key, seconds) == _expire(R, T, clock, key, seconds * UsPerSec)

pexpire(R, T, clock, key, milliseconds) == _expire(R, T, clock, key, milliseconds * UsPerMs)

expireat(R, T, key, when) ==
    IF key \in DOMAIN R THEN Outcome(R, Put(T, key, when * UsPerSec), BoolV(TRUE), NoError)
    ELSE Outcome(R, T, BoolV(FALSE), NoError)

(* int(x) of the quotient a / b: rounds toward zero.                       *)
TruncDiv(a, b) == IF a >= 0 THEN a \div b ELSE -((-a) \div b)

(* td // 1e6 on the microsecond count: rounds down.                        *)
get_total_seconds(td) == td \div UsPerSec

get_total_milliseconds(td) == TruncDiv(td, UsPerMs)

Max(a, b) == IF a >= b THEN a ELSE b
Min(a, b) == IF a <= b THEN a ELSE b

_time_to_live(R, T, clock, key, output_ms) ==
    IF key \notin DOMAIN R THEN IntV(-2)
    ELSE IF key \notin DOMAIN T THEN None
    ELSE LET td == T[key] - clock
             time_to_live == IF output_ms THEN get_total_milliseconds(td)
                             ELSE get_total_seconds(td)
         IN IntV(Max(-1, time_to_live))

ttl(R, T, clock, key) == _time_to_live(R, T, clock, key, FALSE)

pttl(R, T, clock, key) == _time_to_live(R, T, clock, key, TRUE)

(* The keys whose expiry instant has passed (value - now < timedelta(0)).  *)
Expired(T, clock) == {k \in DOMAIN T : T[k] - clock < 0}

(* do_expire where timeouts.items() is a list (Python 2): the loop visits  *)
(* every entry of the snapshot.                                            *)
do_expire_list(R, T, clock) ==
    LET gone == Expired(T, clock)
    IN Outcome([k \in (DOMAIN R) \ gone |-> R[k]],
               [k \in (DOMAIN T) \ gone |-> T[k]], None, NoError)

(* do_expire where timeouts.items() is a view of the dict (Python 3): the  *)
(* first expired entry `key` the loop meets is deleted, and fetching the   *)
(* next item raises "dictionary changed size during iteration".            *)
do_expire_view(R, T, clock, key) ==
    Outcome(IF key \in DOMAIN R THEN Del(R, key) ELSE R, Del(T, key), None, "RuntimeError")

flushdb(R, T) == Outcome(EmptyDict, EmptyDict, None, NoError)

----------------------------------------------------------------------------
(* String functions                                                        *)

get(R, key) == IF key \notin DOMAIN R THEN None ELSE R[key]

(* Variant of _set that writes the value and keeps the expiry entry.      *)
_set_keeps_timeout(R, T, key, value) ==
    Outcome(Put(R, key, StrV(value)), T, BoolV(TRUE), NoError)

_set(R, T, key, value) ==
    Outcome(Put(R, key, StrV(value)), IF key \in DOMAIN T THEN Del(T, key) ELSE T,
            BoolV(TRUE), NoError)

(* _should_set with the tests of nx and xx exchanged.                      *)
_should_set_exchanged(R, key, mode) ==
    IF mode \notin {"nx", "xx"} THEN TRUE
    ELSE IF mode = "nx" THEN key \in DOMAIN R
    ELSE key \notin DOMAIN R

_should_set(R, key, mode) ==
    IF mode \notin {"nx", "xx"} THEN TRUE
    ELSE IF mode = "nx" THEN key \notin DOMAIN R
    ELSE key \in DOMAIN R

(* ex and px are None or IntV(n); a timedelta of zero is falsy.             *)
set(R, T, clock, key, value, ex, px, nx, xx) ==
    IF nx /\ xx THEN Outcome(R, T, None, NoError)
    ELSE LET mode == IF nx THEN "nx" ELSE IF xx THEN "xx" ELSE "None"
         IN IF ~_should_set(R, key, mode) THEN Outcome(R, T, None, NoError)
            ELSE LET expire_ == IF px # None THEN IntV(px.v * UsPerMs)
                                ELSE IF ex # None THEN IntV(ex.v * UsPerSec)
                                ELSE None
                 IN IF expire_ # None /\ expire_.v <= 0
                    THEN Outcome(R, T, None, "ResponseError")
                    ELSE LET o == _set(R, T, key, value)
                         IN IF expire_ # None
                            THEN Outcome(o.redis, _expire(o.redis, o.timeouts, clock, key, expire_.v).timeouts,
                                         o.ret, NoError)
                            ELSE o

setnx(R, T, clock, key, value) == set(R, T, clock, key, value, None, None, TRUE, FALSE)

(* long() of a stored object: a str that is not a numeral raises           *)
(* ValueError, an object that is no str raises TypeError.                  *)
incr(R, T, key, amount) ==
    LET previous == IF key \in DOMAIN R THEN R[key] ELSE StrV("0")
    IN IF previous.t # "string" THEN Outcome(R, T, None, "TypeError")
       ELSE IF ~IsNumeral(previous.v) THEN Outcome(R, T, None, "ValueError")
       ELSE Outcome(Put(R, key, StrV(str(long(previous.v) + amount))), T,
                    IntV(long(previous.v) + amount), NoError)

decr(R, T, key, amount) ==
    LET previous == IF key \in DOMAIN R THEN R[key] ELSE StrV("0")
    IN IF previous.t # "string" THEN Outcome(R, T, None, "TypeError")
       ELSE IF ~IsNumeral(previous.v) THEN Outcome(R, T, None, "ValueError")
       ELSE Outcome(Put(R, key, StrV(str(long(previous.v) - amount))), T,
                    IntV(long(previous.v) - amount), NoError)

----------------------------------------------------------------------------
(* Internal: typed access to the namespace                                 *)

(* _get_by_type: the dictionary after the call (setdefault may have        *)
(* stored `default`), the object handed back, the error raised.            *)
_get_by_type(R, key, create, type_, default, return_default) ==
    IF type(R, key) \in {type_, "none"}
    THEN IF create
         THEN LET R2 == IF key \in DOMAIN R THEN R ELSE Put(R, key, default)
              IN [redis |-> R2, val |-> R2[key], err |-> NoError]
         ELSE [redis |-> R,
               val |-> IF key \in DOMAIN R THEN R[key]
                       ELSE IF return_default THEN default ELSE None,
               err |-> NoError]
    ELSE [redis |-> R, val |-> None, err |-> "TypeError"]

_get_list(R, key, create) == _get_by_type(R, key, create, "list", ListV(<<>>), TRUE)

_get_set(R, key, create) == _get_by_type(R, key, create, "set", SetV({}), TRUE)

_get_hash(R, name, create) == _get_by_type(R, name, create, "hash", HashV(EmptyDict), TRUE)

_get_zset(R, name, create) == _get_by_type(R, name, create, "zset", ZSetV(EmptyDict), FALSE)

_translate_range(len_, start, end) ==
    LET s1 == IF start < 0 THEN start + len_ ELSE start
        s2 == Max(0, Min(s1, len_))
        e1 == IF end < 0 THEN end + len_ ELSE end
        e2 == Max(-1, Min(e1, len_ - 1))
    IN <<s2, e2>>

(* The Python slice l[start:stop]: a negative bound counts from the end,   *)
(* and both are cut to 0..len(l).                                          *)
Slice(l, start, stop) ==
    LET a == IF start < 0 THEN Max(start + Len(l), 0) ELSE Min(start, Len(l))
        b == IF stop < 0 THEN Max(stop + Len(l), 0) ELSE Min(stop, Len(l))
    IN SubSeq(l, a + 1, b)

_translate_limit(len_, start, num) ==
    IF start > len_ \/ num <= 0 THEN <<0, 0>> ELSE <<Min(start, len_), num>>

(* The order of str values under <, as the position in this list.          *)
Strings == <<"", "a", "b", "k1", "k2">>
Ord(s) == CHOOSE i \in DOMAIN Strings : Strings[i] = s

(* sorted(S, key=f): the elements of S in ascending order of f.            *)
RECURSIVE sorted(_, _)
sorted(S, f) ==
    IF S = {} THEN <<>>
    ELSE LET x == CHOOSE x \in S : \A y \in S : f[x] <= f[y]
         IN <<x>> \o sorted(S \ {x}, f)

----------------------------------------------------------------------------
(* List functions                                                          *)

Reverse(l) == [i \in 1..Len(l) |-> l[Len(l) + 1 - i]]

lpush(R, T, key, args) ==
    LET g == _get_list(R, key, TRUE)
    IN IF g.err # NoError THEN Outcome(R, T, None, g.err)
       ELSE Outcome(Put(g.redis, key, ListV(Reverse(args) \o g.val.v)), T, None, NoError)

rpush(R, T, key, args) ==
    LET g == _get_list(R, key, TRUE)
    IN IF g.err # NoError THEN Outcome(R, T, None, g.err)
       ELSE Outcome(Put(g.redis, key, ListV(g.val.v \o args)), T, None, NoError)

lpop(R, T, key) ==
    LET g == _get_list(R, key, FALSE)
    IN IF g.err # NoError THEN Outcome(R, T, None, g.err)
       ELSE IF key \notin DOMAIN R THEN Outcome(R, T, None, NoError)
       ELSE IF g.val.v = <<>> THEN Outcome(R, T, None, NoError)
       ELSE LET rest == Tail(g.val.v)
            IN Outcome(IF Len(rest) = 0 THEN Del(R, key) ELSE Put(R, key, ListV(rest)),
                       T, StrV(Head(g.val.v)), NoError)

rpop(R, T, key) ==
    LET g == _get_list(R, key, FALSE)
    IN IF g.err # NoError THEN Outcome(R, T, None, g.err)
       ELSE IF key \notin DOMAIN R THEN Outcome(R, T, None, NoError)
       ELSE IF g.val.v = <<>> THEN Outcome(R, T, None, NoError)
       ELSE LET l == g.val.v
                rest == SubSeq(l, 1, Len(l) - 1)
            IN Outcome(IF Len(rest) = 0 THEN Del(R, key) ELSE Put(R, key, ListV(rest)),
                       T, StrV(l[Len(l)]), NoError)

(* list.remove(value) repeated while the value occurs, at most `limit`     *)
(* times (limit < 0: no limit): the list left and the number removed.      *)
RECURSIVE RemoveFirst(_, _, _)
RemoveFirst(l, value, limit) ==
    IF l = <<>> \/ limit = 0 THEN [list |-> l, removed |-> 0]
    ELSE IF Head(l) = value
         THEN LET r == RemoveFirst(Tail(l), value, limit - 1)
              IN [list |-> r.list, removed |-> r.removed + 1]
         ELSE LET r == RemoveFirst(Tail(l), value, limit)
              IN [list |-> <<Head(l)>> \o r.list, removed |-> r.removed]

lrem(R, T, key, value, count) ==
    LET g == _get_list(R, key, FALSE)
    IN IF g.err # NoError THEN Outcome(R, T, None, g.err)
       ELSE IF key \notin DOMAIN R THEN Outcome(R, T, IntV(0), NoError)
       ELSE IF count >= 0
       THEN \* the list object is edited in place, and deleted when it empties
            LET r == RemoveFirst(g.val.v, value, IF count = 0 THEN -1 ELSE count)
            IN Outcome(IF r.removed > 0 /\ Len(r.list) = 0 THEN Del(R, key)
                       ELSE Put(R, key, ListV(r.list)),
                       T, IntV(r.removed), NoError)
       ELSE \* a new list is stored; redis_list, whose length decides the
            \* deletion, is still the old object
            LET r == RemoveFirst(Reverse(g.val.v), value, -count)
                R2 == Put(R, key, ListV(Reverse(r.list)))
            IN Outcome(IF r.removed > 0 /\ Len(g.val.v) = 0 THEN Del(R2, key) ELSE R2,
                       T, IntV(r.removed), NoError)

ltrim(R, T, key, start, stop) ==
    LET g == _get_list(R, key, FALSE)
    IN IF g.err # NoError THEN Outcome(R, T, None, g.err)
       ELSE IF g.val.v = <<>> THEN Outcome(R, T, BoolV(TRUE), NoError)
       ELSE LET tr == _translate_range(Len(g.val.v), start, stop)
            IN Outcome(Put(R, key, ListV(Slice(g.val.v, tr[1], tr[2] + 1))),
                       T, BoolV(TRUE), NoError)

rpoplpush(R, T, source, destination) ==
    LET p == rpop(R, T, source)
    IN IF p.err # NoError THEN p
       ELSE IF p.ret = None THEN p
       ELSE LET q == lpush(p.redis, p.timeouts, destination, <<p.ret.v>>)
            IN Outcome(q.redis, q.timeouts, IF q.err = NoError THEN p.ret ELSE None, q.err)

(* Variant of lrange that slices up to `stop` and leaves the element at    *)
(* `stop` out.                                                             *)
lrange_exclusive(R, T, key, start, stop) ==
    LET g == _get_list(R, key, FALSE)
    IN IF g.err # NoError THEN Outcome(R, T, None, g.err)
       ELSE LET r == _translate_range(Len(g.val.v), start, stop)
            IN Outcome(R, T, ListV(Slice(g.val.v, r[1], r[2])), NoError)

lrange(R, T, key, start, stop) ==
    LET g == _get_list(R, key, FALSE)
    IN IF g.err # NoError THEN Outcome(R, T, None, g.err)
       ELSE LET r == _translate_range(Len(g.val.v), start, stop)
            IN Outcome(R, T, ListV(Slice(g.val.v, r[1], r[2] + 1)), NoError)


llen(R, T, key) ==
    LET g == _get_list(R, key, FALSE)
    IN IF g.err # NoError THEN Outcome(R, T, None, g.err)
       ELSE Outcome(R, T, IntV(Len(g.val.v)), NoError)

----------------------------------------------------------------------------
(* Blocking pops                                                           *)

(* _pop_first_available: pop_func is tried on each key in turn, and a pop  *)
(* that returns a falsy value counts as no value; the dictionaries are     *)
(* those the pops left.                                                    *)
RECURSIVE _pop_first_available(_, _, _, _)
_pop_first_available(R, T, pop_func, keys) ==
    IF keys = <<>> THEN [redis |-> R, timeouts |-> T, found |-> FALSE, key |-> "", val |-> "",
                         err |-> NoError]
    ELSE LET o == IF pop_func = "lpop" THEN lpop(R, T, Head(keys)) ELSE rpop(R, T, Head(keys))
         IN IF o.err # NoError
            THEN [redis |-> o.redis, timeouts |-> o.timeouts, found |-> FALSE, key |-> "",
                  val |-> "", err |-> o.err]
            ELSE IF Truthy(o.ret)
            THEN [redis |-> o.redis, timeouts |-> o.timeouts, found |-> TRUE,
                  key |-> Head(keys), val |-> o.ret.v, err |-> NoError]
            ELSE _pop_first_available(o.redis, o.timeouts, pop_func, Tail(keys))

(* What blpop, brpop or brpoplpush hands back once _blocking_pop returned  *)
(* `item`, a (key, value) pair or None: brpoplpush pushes the value onto   *)
(* its destination and returns the value alone.                            *)
Returned(R, T, b, item) ==
    IF b.op # "brpoplpush" THEN [redis |-> R, timeouts |-> T, ret |-> item, err |-> NoError]
    ELSE IF item = None THEN [redis |-> R, timeouts |-> T, ret |-> None, err |-> NoError]
    ELSE LET q == lpush(R, T, b.destination[1], <<item.v[2]>>)
         IN [redis |-> q.redis, timeouts |-> q.timeouts,
             ret |-> IF q.err = NoError THEN StrV(item.v[2]) ELSE None, err |-> q.err]

(* The loop of _blocking_pop from its test to the next time.sleep (pc      *)
(* "sleeping") or to the return (pc "idle"); b holds the local variables.  *)
_blocking_pop_loop(R, T, b, elapsed_time) ==
    IF elapsed_time < b.timeout * WallPerSec
    THEN LET p == _pop_first_available(R, T, b.pop_func, b.keys)
         IN IF p.err # NoError
            THEN [redis |-> p.redis, timeouts |-> p.timeouts, ret |-> None, err |-> p.err,
                  pc |-> "idle"]
            ELSE IF p.found
            THEN Returned(p.redis, p.timeouts, b, TupleV(<<p.key, p.val>>)) @@ [pc |-> "idle"]
            ELSE [redis |-> p.redis, timeouts |-> p.timeouts, ret |-> None, err |-> NoError,
                  pc |-> "sleeping"]
    ELSE Returned(R, T, b, None) @@ [pc |-> "idle"]

(* _blocking_pop up to its first time.sleep or its return: `timeout` is    *)
(* the argument as given, `default` self.blocking_timeout.                 *)
_blocking_pop(R, T, b, timeout, default) ==
    IF timeout.t # "int"
    THEN [redis |-> R, timeouts |-> T, ret |-> None, err |-> "RuntimeError", pc |-> "idle",
          timeout |-> 0]
    ELSE LET timeout_ == IF timeout.v = 0 THEN default ELSE timeout.v
         IN _blocking_pop_loop(R, T, [b EXCEPT !.timeout = timeout_], 0) @@ [timeout |-> timeout_]


----------------------------------------------------------------------------
(* Set functions                                                           *)

sadd(R, T, key, values) ==
    LET g == _get_set(R, key, TRUE)
    IN IF g.err # NoError THEN Outcome(R, T, None, g.err)
       ELSE LET after == g.val.v \cup values
            IN Outcome(Put(g.redis, key, SetV(after)), T,
                       IntV(Cardinality(after) - Cardinality(g.val.v)), NoError)

scard(R, T, key) ==
    LET g == _get_set(R, key, FALSE)
    IN IF g.err # NoError THEN Outcome(R, T, None, g.err)
       ELSE Outcome(R, T, IntV(Cardinality(g.val.v)), NoError)

srem(R, T, key, values) ==
    LET g == _get_set(R, key, FALSE)
    IN IF g.err # NoError THEN Outcome(R, T, None, g.err)
       ELSE IF ~Truthy(g.val) THEN Outcome(R, T, IntV(0), NoError)
       ELSE LET after == g.val.v \ values
            IN Outcome(IF after = {} THEN Del(R, key) ELSE Put(R, key, SetV(after)), T,
                       IntV(Cardinality(g.val.v) - Cardinality(after)), NoError)

(* `member` is the element random.choice picks.                            *)
spop(R, T, name, member) ==
    LET g == _get_set(R, name, FALSE)
    IN IF g.err # NoError THEN Outcome(R, T, None, g.err)
       ELSE IF ~Truthy(g.val) THEN Outcome(R, T, None, NoError)
       ELSE LET after == g.val.v \ {member}
            IN Outcome(IF after = {} THEN Del(R, name) ELSE Put(R, name, SetV(after)), T,
                       StrV(member), NoError)

smove(R, T, src, dst, value) ==
    LET gs == _get_set(R, src, FALSE)
        gd == _get_set(R, dst, FALSE)
    IN IF gs.err # NoError THEN Outcome(R, T, None, gs.err)
       ELSE IF gd.err # NoError THEN Outcome(R, T, None, gd.err)
       ELSE IF value \notin gs.val.v THEN Outcome(R, T, BoolV(FALSE), NoError)
       ELSE IF src = dst
       THEN \* one set object: discard, then add
            Outcome(Put(R, src, SetV((gs.val.v \ {value}) \cup {value})), T,
                    BoolV(TRUE), NoError)
       ELSE Outcome(Put(Put(R, src, SetV(gs.val.v \ {value})),
                        dst, SetV(gd.val.v \cup {value})), T, BoolV(TRUE), NoError)

SetFunc(operation, left, right) ==
    CASE operation = "SDIFF" -> left \ right
      [] operation = "SINTER" -> left \cap right
      [] operation = "SUNION" -> left \cup right

(* _apply_to_sets: [val |-> the resulting set, err |-> the error raised].  *)
RECURSIVE apply_loop(_, _, _, _)
apply_loop(R, operation, keys, left) ==
    IF keys = <<>> THEN [val |-> left, err |-> NoError]
    ELSE LET g == _get_set(R, Head(keys), FALSE)
         IN IF g.err # NoError THEN [val |-> {}, err |-> g.err]
            ELSE apply_loop(R, operation, Tail(keys), SetFunc(operation, left, g.val.v))

_apply_to_sets(R, operation, keys) ==
    IF keys = <<>> THEN [val |-> {}, err |-> "TypeError"]
    ELSE LET g == _get_set(R, Head(keys), FALSE)
         IN IF g.err # NoError THEN [val |-> {}, err |-> g.err]
            ELSE apply_loop(R, operation, Tail(keys), g.val.v)

StoreSet(R, T, operation, dest, keys) ==
    LET a == _apply_to_sets(R, operation, keys)
    IN IF a.err # NoError THEN Outcome(R, T, None, a.err)
       ELSE Outcome(Put(R, dest, SetV(a.val)), T, IntV(Cardinality(a.val)), NoError)

sdiffstore(R, T, dest, keys) == StoreSet(R, T, "SDIFF", dest, keys)

sinterstore(R, T, dest, keys) == StoreSet(R, T, "SINTER", dest, keys)

sunionstore(R, T, dest, keys) == StoreSet(R, T, "SUNION", dest, keys)

----------------------------------------------------------------------------
(* Hash functions                                                          *)

hset(R, T, hashkey, attribute, value) ==
    LET g == _get_hash(R, hashkey, TRUE)
    IN IF g.err # NoError THEN Outcome(R, T, None, g.err)
       ELSE Outcome(Put(g.redis, hashkey, HashV(Put(g.val.v, attribute, value))), T,
                    None, NoError)

hget(R, T, hashkey, attribute) ==
    LET g == _get_hash(R, hashkey, FALSE)
    IN IF g.err # NoError THEN Outcome(R, T, None, g.err)
       ELSE Outcome(R, T, IF attribute \in DOMAIN g.val.v THEN StrV(g.val.v[attribute])
                          ELSE None, NoError)

(* The loop of hdel: the namespace, the hash object and the count after    *)
(* the attributes `keys`.  The key is deleted when the object empties.     *)
RECURSIVE hdel_loop(_, _, _, _, _)
hdel_loop(R, hashkey, redis_hash, keys, count) ==
    IF keys = <<>> THEN [redis |-> R, count |-> count]
    ELSE IF Head(keys) \in DOMAIN redis_hash
         THEN LET h2 == Del(redis_hash, Head(keys))
                  R2 == IF DOMAIN h2 = {} THEN Del(R, hashkey)
                        ELSE IF hashkey \in DOMAIN R THEN Put(R, hashkey, HashV(h2))
                        ELSE R
              IN hdel_loop(R2, hashkey, h2, Tail(keys), count + 1)
         ELSE hdel_loop(R, hashkey, redis_hash, Tail(keys), count)

hdel(R, T, hashkey, keys) ==
    LET g == _get_hash(R, hashkey, FALSE)
    IN IF g.err # NoError THEN Outcome(R, T, None, g.err)
       ELSE LET r == hdel_loop(R, hashkey, g.val.v, keys, 0)
            IN Outcome(r.redis, T, IntV(r.count), NoError)

----------------------------------------------------------------------------
(* mockredis.sortedset.SortedSet: a set of members, each with one score.   *)
(* The object is a function member -> score; it is falsy when empty.       *)

SS_insert(z, member, score) == [zset |-> Put(z, member, score), new |-> member \notin DOMAIN z]

SS_remove(z, member) ==
    [zset |-> IF member \in DOMAIN z THEN Del(z, member) ELSE z, removed |-> member \in DOMAIN z]

SS_len(z) == Cardinality(DOMAIN z)

SS_score(z, member) == IF member \in DOMAIN z THEN IntV(z[member]) ELSE None

(* rank(member): the 0-based position of the member in ascending (score,   *)
(* member) order, or None.                                                 *)
SS_rank(z, member) ==
    IF member \notin DOMAIN z THEN None
    ELSE IntV(Cardinality({m \in DOMAIN z :
                  z[m] < z[member] \/ (z[m] = z[member] /\ Ord(m) < Ord(member))}))

(* range(start, end, desc): the (score, member) pairs of rank start..end,  *)
(* in descending order if desc.                                            *)
SS_range(z, start, end, desc) ==
    LET S == {<<z[m], m>> : m \in DOMAIN z}
        asc == Slice(sorted(S, [x \in S |-> x[1] * (Len(Strings) + 1) + Ord(x[2])]), start, end + 1)
    IN IF desc THEN Reverse(asc) ELSE asc


(* scorerange(min, max): the (score, member) pairs with min <= score <=    *)
(* max, in ascending (score, member) order.                                *)
SS_scorerange(z, min, max) ==
    LET S == {<<z[m], m>> : m \in {m \in DOMAIN z : min <= z[m] /\ z[m] <= max}}
    IN sorted(S, [x \in S |-> x[1] * (Len(Strings) + 1) + Ord(x[2])])


----------------------------------------------------------------------------
(* Sorted set functions                                                    *)

(* The (member, score) pairs zadd reads from its positional arguments.     *)
Pieces(is_strict, args) ==
    [i \in 1..(Len(args) \div 2) |->
        [member |-> args[2 * i - (IF is_strict THEN 0 ELSE 1)],
         score |-> args[2 * i - (IF is_strict THEN 1 ELSE 0)]]]

(* Variant of the sum over the pieces that counts every piece, new member  *)
(* or not.                                                                 *)
RECURSIVE insert_loop_counts_all(_, _, _)
insert_loop_counts_all(z, pieces, count) ==
    IF pieces = <<>> THEN [zset |-> z, count |-> count]
    ELSE insert_loop_counts_all(SS_insert(z, Head(pieces).member, Head(pieces).score).zset,
                                Tail(pieces), count + 1)

RECURSIVE insert_loop(_, _, _)
insert_loop(z, pieces, count) ==
    IF pieces = <<>> THEN [zset |-> z, count |-> count]
    ELSE LET r == SS_insert(z, Head(pieces).member, Head(pieces).score)
         IN insert_loop(r.zset, Tail(pieces), IF r.new THEN count + 1 ELSE count)

zadd(R, T, is_strict, name, args) ==
    LET g == _get_zset(R, name, TRUE)
    IN IF g.err # NoError THEN Outcome(R, T, None, g.err)
       ELSE IF Len(args) % 2 # 0 THEN Outcome(g.redis, T, None, "RedisError")
       ELSE LET r == insert_loop(g.val.v, Pieces(is_strict, args), 0)
            IN Outcome(Put(g.redis, name, ZSetV(r.zset)), T, IntV(r.count), NoError)

zscore(R, T, name, value) ==
    LET g == _get_zset(R, name, FALSE)
    IN IF g.err # NoError THEN Outcome(R, T, None, g.err)
       ELSE Outcome(R, T, IF g.val # None THEN SS_score(g.val.v, value) ELSE None, NoError)

zcard(R, T, name) ==
    LET g == _get_zset(R, name, FALSE)
    IN IF g.err # NoError THEN Outcome(R, T, None, g.err)
       ELSE Outcome(R, T, IF g.val # None THEN IntV(SS_len(g.val.v)) ELSE IntV(0), NoError)

zincrby(R, T, name, value, amount) ==
    LET g == _get_zset(R, name, TRUE)
    IN IF g.err # NoError THEN Outcome(R, T, None, g.err)
       ELSE LET old == SS_score(g.val.v, value)
                score == (IF Truthy(old) THEN old.v ELSE 0) + amount
            IN Outcome(Put(g.redis, name, ZSetV(SS_insert(g.val.v, value, score).zset)), T,
                       IntV(score), NoError)

RECURSIVE remove_loop(_, _, _)
remove_loop(z, values, count) ==
    IF values = <<>> THEN [zset |-> z, count |-> count]
    ELSE LET r == SS_remove(z, Head(values))
         IN remove_loop(r.zset, Tail(values), IF r.removed THEN count + 1 ELSE count)

zrem(R, T, name, values) ==
    LET g == _get_zset(R, name, FALSE)
    IN IF g.err # NoError THEN Outcome(R, T, None, g.err)
       ELSE IF ~Truthy(g.val) THEN Outcome(R, T, IntV(0), NoError)
       ELSE LET r == remove_loop(g.val.v, values, 0)
            IN Outcome(IF r.count > 0 /\ SS_len(r.zset) = 0 THEN Del(R, name)
                       ELSE Put(R, name, ZSetV(r.zset)), T, IntV(r.count), NoError)

(* The removal of the members of `items`, (score, member) pairs, shared by *)
(* zremrangebyrank and zremrangebyscore.                                   *)
remove_items(R, T, name, z, items) ==
    LET r == remove_loop(z, [i \in DOMAIN items |-> items[i][2]], 0)
    IN Outcome(IF r.count > 0 /\ SS_len(r.zset) = 0 THEN Del(R, name)
               ELSE Put(R, name, ZSetV(r.zset)), T, IntV(r.count), NoError)

zremrangebyrank(R, T, name, start, end) ==
    LET g == _get_zset(R, name, FALSE)
    IN IF g.err # NoError THEN Outcome(R, T, None, g.err)
       ELSE IF ~Truthy(g.val) THEN Outcome(R, T, IntV(0), NoError)
       ELSE LET r == _translate_range(SS_len(g.val.v), start, end)
            IN remove_items(R, T, name, g.val.v, SS_range(g.val.v, r[1], r[2], FALSE))

zremrangebyscore(R, T, name, min, max) ==
    LET g == _get_zset(R, name, FALSE)
    IN IF g.err # NoError THEN Outcome(R, T, None, g.err)
       ELSE IF ~Truthy(g.val) THEN Outcome(R, T, IntV(0), NoError)
       ELSE remove_items(R, T, name, g.val.v, SS_scorerange(g.val.v, min, max))

(* [func(item) for item in items] with func = _range_func(withscores, _): *)
(* the members, or the (member, score) tuples, of (score, member) pairs.   *)
_range_func(withscores, items) ==
    IF items = <<>> THEN ListV(<<>>)
    ELSE IF withscores THEN TuplesV([i \in DOMAIN items |-> <<items[i][2], items[i][1]>>])
    ELSE ListV([i \in DOMAIN items |-> items[i][2]])

zrange(R, T, name, start, end, desc, withscores) ==
    LET g == _get_zset(R, name, FALSE)
    IN IF g.err # NoError THEN Outcome(R, T, None, g.err)
       ELSE IF ~Truthy(g.val) THEN Outcome(R, T, ListV(<<>>), NoError)
       ELSE LET r == _translate_range(SS_len(g.val.v), start, end)
            IN Outcome(R, T, _range_func(withscores, SS_range(g.val.v, r[1], r[2], desc)), NoError)

(* Variant of zrank that counts the members whose name comes first, and   *)
(* looks at no score.                                                      *)
zrank_by_name(R, T, name, value) ==
    LET g == _get_zset(R, name, FALSE)
    IN IF g.err # NoError THEN Outcome(R, T, None, g.err)
       ELSE IF ~Truthy(g.val) \/ value \notin DOMAIN g.val.v THEN Outcome(R, T, None, NoError)
       ELSE Outcome(R, T, IntV(Cardinality({m \in DOMAIN g.val.v : Ord(m) < Ord(value)})), NoError)

zrank(R, T, name, value) ==
    LET g == _get_zset(R, name, FALSE)
    IN IF g.err # NoError THEN Outcome(R, T, None, g.err)
       ELSE Outcome(R, T, IF Truthy(g.val) THEN SS_rank(g.val.v, value) ELSE None, NoError)

zrevrange(R, T, name, start, end, withscores) == zrange(R, T, name, start, end, TRUE, withscores)

(* len(zset) - zset.rank(value) - 1, which Python refuses with TypeError   *)
(* when rank is None.                                                      *)
zrevrank(R, T, name, value) ==
    LET g == _get_zset(R, name, FALSE)
    IN IF g.err # NoError THEN Outcome(R, T, None, g.err)
       ELSE IF g.val = None THEN Outcome(R, T, None, NoError)
       ELSE LET rank == SS_rank(g.val.v, value)
            IN IF rank = None THEN Outcome(R, T, None, "TypeError")
               ELSE Outcome(R, T, IntV(SS_len(g.val.v) - rank.v - 1), NoError)


zcount(R, T, name, min, max) ==
    LET g == _get_zset(R, name, FALSE)
    IN IF g.err # NoError THEN Outcome(R, T, None, g.err)
       ELSE IF ~Truthy(g.val) THEN Outcome(R, T, IntV(0), NoError)
       ELSE Outcome(R, T, IntV(Len(SS_scorerange(g.val.v, min, max))), NoError)

(* Variant of byscore that never reverses the score range.                 *)
byscore_ascending(R, T, name, min, max, start, num, withscores, desc) ==
    IF (start = None) # (num = None) THEN Outcome(R, T, None, "RedisError")
    ELSE LET g == _get_zset(R, name, FALSE)
         IN IF g.err # NoError THEN Outcome(R, T, None, g.err)
            ELSE IF ~Truthy(g.val) THEN Outcome(R, T, ListV(<<>>), NoError)
            ELSE LET scorerange == SS_scorerange(g.val.v, min, max)
                     lim == _translate_limit(Len(scorerange), start.v, num.v)
                     page == IF start # None /\ num # None
                             THEN Slice(scorerange, lim[1], lim[1] + lim[2])
                             ELSE scorerange
                 IN Outcome(R, T, _range_func(withscores, page), NoError)

(* zrangebyscore and zrevrangebyscore: start and num are None or IntV;     *)
(* `desc` reverses the score range before the limit is applied.            *)
byscore(R, T, name, min, max, start, num, withscores, desc) ==
    IF (start = None) # (num = None) THEN Outcome(R, T, None, "RedisError")
    ELSE LET g == _get_zset(R, name, FALSE)
         IN IF g.err # NoError THEN Outcome(R, T, None, g.err)
            ELSE IF ~Truthy(g.val) THEN Outcome(R, T, ListV(<<>>), NoError)
            ELSE LET asc == SS_scorerange(g.val.v, min, max)
                     scorerange == IF desc THEN Reverse(asc) ELSE asc
                     lim == _translate_limit(Len(scorerange), start.v, num.v)
                     page == IF start # None /\ num # None
                             THEN Slice(scorerange, lim[1], lim[1] + lim[2])
                             ELSE scorerange
                 IN Outcome(R, T, _range_func(withscores, page), NoError)

zrangebyscore(R, T, name, min, max, start, num, withscores) ==
    byscore(R, T, name, min, max, start, num, withscores, FALSE)

zrevrangebyscore(R, T, name, max, min, start, num, withscores) ==
    byscore(R, T, name, min, max, start, num, withscores, TRUE)


(* str.lower on the aggregate names the model passes.                      *)
LowerOf == [SUM |-> "sum", Sum |-> "sum", MIN |-> "min", Min |-> "min", MAX |-> "max", Max |-> "max",
            ZADD |-> "zadd", ZAdd |-> "zadd", ZCARD |-> "zcard", DEL |-> "del",
            ZRANGE |-> "zrange", ZREVRANGE |-> "zrevrange",
            ZRANGEBYSCORE |-> "zrangebyscore", ZRevRangeByScore |-> "zrevrangebyscore",
            LIMIT |-> "limit", Limit |-> "limit",
            WITHSCORES |-> "withscores", WithScores |-> "withscores",
            Redis |-> "redis", STRICT |-> "strict", FOO |-> "foo"]
Lower(s) == IF s \in DOMAIN LowerOf THEN LowerOf[s] ELSE s

(* Variant of _aggregate_func that falls back to sum for a name it does    *)
(* not know.                                                               *)
_aggregate_func_lenient(aggregate) ==
    LET func_name == IF aggregate # None /\ aggregate.v # "" THEN Lower(aggregate.v) ELSE "sum"
    IN [func |-> IF func_name \in {"sum", "min", "max"} THEN func_name ELSE "sum", err |-> NoError]


(* _aggregate_func: the name of the function chosen, or the error.         *)
_aggregate_func(aggregate) ==
    LET func_name == IF aggregate # None /\ aggregate.v # "" THEN Lower(aggregate.v) ELSE "sum"
    IN IF func_name \in {"sum", "min", "max"} THEN [func |-> func_name, err |-> NoError]
       ELSE [func |-> "", err |-> "TypeError"]

Aggregate(func, a, b) ==
    CASE func = "sum" -> a + b
      [] func = "min" -> Min(a, b)
      [] func = "max" -> Max(a, b)

(* The loop of zunionstore over `keys`: the union built so far.            *)
RECURSIVE union_loop(_, _, _, _)
union_loop(R, func, keys, union) ==
    IF keys = <<>> THEN [val |-> union, err |-> NoError]
    ELSE LET g == _get_zset(R, Head(keys), FALSE)
         IN IF g.err # NoError THEN [val |-> union, err |-> g.err]
            ELSE IF ~Truthy(g.val) THEN union_loop(R, func, Tail(keys), union)
            ELSE LET z == g.val.v
                     u2 == [m \in (DOMAIN union) \cup (DOMAIN z) |->
                              IF m \in DOMAIN union /\ m \in DOMAIN z
                              THEN Aggregate(func, union[m], z[m])
                              ELSE IF m \in DOMAIN z THEN z[m] ELSE union[m]]
                 IN union_loop(R, func, Tail(keys), u2)

zunionstore(R, T, dest, keys, aggregate) ==
    LET a == _aggregate_func(aggregate)
    IN IF a.err # NoError THEN Outcome(R, T, None, a.err)
       ELSE LET u == union_loop(R, a.func, keys, EmptyDict)
            IN IF u.err # NoError THEN Outcome(R, T, None, u.err)
               ELSE Outcome(Put(R, dest, ZSetV(u.val)), T, IntV(SS_len(u.val)), NoError)

(* The first loop of zinterstore: members -> the list of its scores, or    *)
(* the early return at a key that holds no member.                         *)
RECURSIVE inter_loop(_, _, _)
inter_loop(R, keys, members) ==
    IF keys = <<>> THEN [val |-> members, early |-> FALSE, err |-> NoError]
    ELSE LET g == _get_zset(R, Head(keys), FALSE)
         IN IF g.err # NoError THEN [val |-> members, early |-> FALSE, err |-> g.err]
            ELSE IF ~Truthy(g.val) THEN [val |-> members, early |-> TRUE, err |-> NoError]
            ELSE LET z == g.val.v
                     m2 == [m \in (DOMAIN members) \cup (DOMAIN z) |->
                              IF m \in DOMAIN z
                              THEN (IF m \in DOMAIN members THEN members[m] ELSE <<>>) \o <<z[m]>>
                              ELSE members[m]]
                 IN inter_loop(R, Tail(keys), m2)

RECURSIVE Reduce(_, _)
Reduce(func, scores) ==
    IF Len(scores) = 1 THEN scores[1]
    ELSE Aggregate(func, Reduce(func, SubSeq(scores, 1, Len(scores) - 1)), scores[Len(scores)])

zinterstore(R, T, dest, keys, aggregate) ==
    LET a == _aggregate_func(aggregate)
    IN IF a.err # NoError THEN Outcome(R, T, None, a.err)
       ELSE LET i == inter_loop(R, keys, EmptyDict)
            IN IF i.err # NoError THEN Outcome(R, T, None, i.err)
               ELSE IF i.early THEN Outcome(R, T, IntV(0), NoError)
               ELSE LET shared == {m \in DOMAIN i.val : Len(i.val[m]) = Len(keys)}
                        intersection == [m \in shared |-> Reduce(a.func, i.val[m])]
                    IN Outcome(Put(R, dest, ZSetV(intersection)), T,
                               IntV(SS_len(intersection)), NoError)

----------------------------------------------------------------------------
(* Scan functions                                                          *)

(* The characters of the str values the model scans and matches.           *)
Chars(s) ==
    CASE s = "" -> <<>>
      [] s = "a" -> <<"a">>
      [] s = "b" -> <<"b">>
      [] s = "k1" -> <<"k", "1">>
      [] s = "k2" -> <<"k", "2">>
      [] s = "*1" -> <<"*", "1">>
      [] s = "a*" -> <<"a", "*">>

(* re.match('^' + match.replace('*', '.*') + '$', s) for a pattern of      *)
(* literal characters, '.' and '*': `p` is the pattern before the replace, *)
(* so '*' stands for '.*'.                                                 *)
RECURSIVE re_match(_, _)
re_match(p, s) ==
    IF p = <<>> THEN s = <<>>
    ELSE IF Head(p) = "*" THEN \E i \in 0..Len(s) : re_match(Tail(p), SubSeq(s, i + 1, Len(s)))
    ELSE /\ s # <<>>
         /\ Head(p) = "." \/ Head(p) = Head(s)
         /\ re_match(Tail(p), Tail(s))

(* Variant of _common_scan that goes back to cursor '0' only when the page *)
(* ends before the end of the values.                                      *)
_common_scan_late(values, cursor, match, count, by_first) ==
    LET count_ == IF count = None THEN 10 ELSE count.v
        page == Slice(values, long(cursor), long(cursor) + count_)
    IN IF count_ = 0 THEN [cursor |-> "", values |-> <<>>, err |-> "ValueError"]
       ELSE [cursor |-> IF long(cursor) + count_ > Len(values) THEN "0"
                        ELSE str(long(cursor) + count_),
             values |-> IF match = None THEN page
                        ELSE SelectSeq(page, LAMBDA v : re_match(Chars(match.v),
                                                   Chars(IF by_first THEN v[1] ELSE v))),
             err |-> NoError]

(* _common_scan on the values the command's value function returned;       *)
(* by_first: the pattern is matched against the first component (key=).    *)
_common_scan(values, cursor, match, count, by_first) ==
    LET count_ == IF count = None THEN 10 ELSE count.v
        page == Slice(values, long(cursor), long(cursor) + count_)
    IN IF count_ = 0 THEN [cursor |-> "", values |-> <<>>, err |-> "ValueError"]
       ELSE [cursor |-> IF long(cursor) + count_ >= Len(values) THEN "0"
                        ELSE str(long(cursor) + count_),
             values |-> IF match = None THEN page
                        ELSE SelectSeq(page, LAMBDA v : re_match(Chars(match.v),
                                                   Chars(IF by_first THEN v[1] ELSE v))),
             err |-> NoError]

(* What a scan command returns: [result_cursor, values], or the error.     *)
Scanned(R, T, c) ==
    IF c.err # NoError THEN Outcome(R, T, None, c.err)
    ELSE Outcome(R, T, ListV(<<c.cursor, c.values>>), NoError)

scan(R, T, cursor, match, count) ==
    Scanned(R, T, _common_scan(sorted(DOMAIN R, [k \in DOMAIN R |-> Ord(k)]),
                               cursor, match, count, FALSE))

sscan(R, T, name, cursor, match, count) ==
    LET g == _get_set(R, name, FALSE)
    IN IF g.err # NoError THEN Outcome(R, T, None, g.err)
       ELSE Scanned(R, T, _common_scan(sorted(g.val.v, [m \in g.val.v |-> Ord(m)]),
                                       cursor, match, count, FALSE))

(* zrange hands the pairs back in (score, member) order and the sort by    *)
(* score is stable, so that order stays.                                   *)
zscan(R, T, name, cursor, match, count) ==
    LET z == zrange(R, T, name, 0, -1, FALSE, TRUE)
    IN IF z.err # NoError THEN z
       ELSE Scanned(R, T, _common_scan(z.ret.v, cursor, match, count, TRUE))

(* The page of (field, value) pairs is turned back into a dict.            *)
hscan(R, T, name, cursor, match, count) ==
    LET g == _get_hash(R, name, FALSE)
    IN IF g.err # NoError THEN Outcome(R, T, None, g.err)
       ELSE LET fields == sorted(DOMAIN g.val.v, [f \in DOMAIN g.val.v |-> Ord(f)])
                c == _common_scan([i \in DOMAIN fields |-> <<fields[i], g.val.v[fields[i]]>>],
                                  cursor, match, count, TRUE)
            IN IF c.err # NoError THEN Outcome(R, T, None, c.err)
               ELSE Outcome(R, T, ListV(<<c.cursor,
                       [f \in {c.values[i][1] : i \in DOMAIN c.values} |-> g.val.v[f]]>>), NoError)


----------------------------------------------------------------------------
(* Script functions                                                        *)

_normalize_command_name(command) ==
    LET c == Lower(command) IN IF c = "del" THEN "delete" ELSE c

(* args[2::2] zipped with args[1::2] and flattened: zip stops at the       *)
(* shorter of the two slices.                                              *)
RECURSIVE zip_flat(_, _)
zip_flat(xs, ys) ==
    IF xs = <<>> \/ ys = <<>> THEN <<>>
    ELSE <<Head(xs), Head(ys)>> \o zip_flat(Tail(xs), Tail(ys))

(* Every second element of args from the 0-based index `from` on.          *)
Stride2(args, from) ==
    [i \in 1..((Len(args) - from + 1) \div 2) |-> args[from + 2 * i - 1]]

(* str(arg).lower() for an argument after name, min and max: a string or  *)
(* an integer.                                                             *)
lower_arg(arg) == IF arg.t = "string" THEN Lower(arg.v) ELSE str(arg.v)

(* Variant of the loop below that reads LIMIT only as the first of the     *)
(* extra arguments and WITHSCORES only right after the limit, or first.    *)
RECURSIVE extras_loop_in_order(_, _, _)
extras_loop_in_order(args, i, found) ==
    IF i > Len(args) THEN found
    ELSE IF i = 4 /\ lower_arg(args[i]) = "limit" /\ i + 2 <= Len(args)
    THEN extras_loop_in_order(args, i + 3, [found EXCEPT !.start = args[i + 1], !.num = args[i + 2]])
    ELSE IF lower_arg(args[i]) = "withscores"
    THEN [found EXCEPT !.withscores = TRUE]
    ELSE found

(* The loop of _normalize_command_args over args[3:], at the argument of   *)
(* 1-based index i: every argument is looked at, those of a LIMIT group    *)
(* too.                                                                    *)
RECURSIVE extras_loop(_, _, _)
extras_loop(args, i, found) ==
    IF i > Len(args) THEN found
    ELSE LET limit == lower_arg(args[i]) = "limit" /\ i + 2 <= Len(args)
             f1 == IF limit THEN [found EXCEPT !.start = args[i + 1], !.num = args[i + 2]]
                   ELSE found
             f2 == IF lower_arg(args[i]) = "withscores" THEN [f1 EXCEPT !.withscores = TRUE]
                   ELSE f1
         IN extras_loop(args, i + 1, f2)

(* _normalize_command_args; args[1] is the name. For zrangebyscore and     *)
(* zrevrangebyscore args[2] and args[3] are the bounds and the arguments   *)
(* after them are StrV or IntV.                                            *)
_normalize_command_args(is_strict, command, args) ==
    IF command = "zadd" /\ ~is_strict /\ Len(args) >= 3
    THEN <<args[1]>> \o zip_flat(Stride2(args, 2), Stride2(args, 1))
    ELSE IF command \in {"zrangebyscore", "zrevrangebyscore"} /\ Len(args) > 3
    THEN LET found == extras_loop(args, 4, [start |-> None, num |-> None, withscores |-> FALSE])
         IN SubSeq(args, 1, 3) \o <<found.start, found.num, found.withscores>>
    ELSE args

RangeCommands == {"zrange", "zrevrange", "zrangebyscore", "zrevrangebyscore"}

(* [value for tpl in response for value in tpl]                            *)
RECURSIVE flatten(_)
flatten(tuples) == IF tuples = <<>> THEN <<>> ELSE Head(tuples) \o flatten(Tail(tuples))

_normalize_command_response(command, response) ==
    IF command \in RangeCommands /\ response.t = "tuples" THEN FlatV(flatten(response.v))
    ELSE response

(* The positional argument at 1-based index i, or the default of the       *)
(* parameter it binds.                                                     *)
Positional(args, i, default) == IF i <= Len(args) THEN args[i] ELSE default

(* Attributes of the engine that hold data and cannot be called.           *)
DataAttributes == {"redis", "timeouts", "strict", "pubsub", "shas", "clock",
                   "blocking_timeout", "blocking_sleep_interval", "load_lua_dependencies"}

(* The call of redis_function for the methods the model calls by name: the *)
(* sorted-set commands, delete, and the helper _set; a data attribute is   *)
(* not callable, and getattr fails for a name the engine does not have.    *)
Dispatch(R, T, is_strict, command, args) ==
    CASE command = "zadd" -> zadd(R, T, is_strict, args[1], Tail(args))
      [] command = "zcard" -> zcard(R, T, args[1])
      [] command = "delete" -> delete(R, T, args)
      [] command = "zrange" ->
            zrange(R, T, args[1], args[2], args[3],
                   Truthy(Positional(args, 4, BoolV(FALSE))), Truthy(Positional(args, 5, BoolV(FALSE))))
      [] command = "zrevrange" ->
            zrevrange(R, T, args[1], args[2], args[3], Truthy(Positional(args, 4, BoolV(FALSE))))
      [] command = "zrangebyscore" ->
            zrangebyscore(R, T, args[1], args[2], args[3], Positional(args, 4, None),
                          Positional(args, 5, None), Positional(args, 6, FALSE))
      [] command = "zrevrangebyscore" ->
            zrevrangebyscore(R, T, args[1], args[2], args[3], Positional(args, 4, None),
                             Positional(args, 5, None), Positional(args, 6, FALSE))
      [] command = "_set" -> _set(R, T, args[1], args[2])
      [] command \in DataAttributes -> Outcome(R, T, None, "TypeError")
      [] OTHER -> Outcome(R, T, None, "AttributeError")

call(R, T, is_strict, command_, args_) ==
    LET command == _normalize_command_name(command_)
        args == _normalize_command_args(is_strict, command, args_)
        o == Dispatch(R, T, is_strict, command, args)
    IN IF o.err # NoError THEN o
       ELSE Outcome(o.redis, o.timeouts, _normalize_command_response(command, o.ret), NoError)

----------------------------------------------------------------------------
(* Actions: one call of a command on the engine                            *)

(* No blocking pop is suspended; no scan loop is under way.                *)
Idle == [pc |-> "idle"]

(* The keys other than k bound to the set object that k is bound to.       *)
Peers(k) == UNION {g \in aliases : k \in g} \ {k}

(* The groups once the keys of `gone` are bound to other objects or to     *)
(* none, and those of `joined` (one key, or none) to the object of `to`.   *)
Regroup(gone, joined, to) ==
    LET left == {g \ gone : g \in aliases}
        met == IF joined = {} THEN left
               ELSE {g \in left : to \notin g} \cup {(Peers(to) \ gone) \cup {to} \cup joined}
    IN {g \in met : Cardinality(g) >= 2}

(* The set object that `key` was bound to holds what R has under `key`, or *)
(* nothing when the command emptied it and deleted `key`; the object is    *)
(* still what the peers of `key` are bound to.                             *)
RECURSIVE update_in_place(_, _, _)
update_in_place(R, key, peers) ==
    IF peers = {} THEN R
    ELSE LET p == CHOOSE p \in peers : TRUE
         IN update_in_place(Put(R, p, IF key \in DOMAIN R THEN R[key] ELSE SetV({})),
                            key, peers \ {p})

(* self.redis and the sharing of set objects after a command that left o:  *)
(* the set commands change their set in place (redis_set.update, .discard, *)
(* .remove, .add), so under every key bound to it; sdiffstore, sinterstore *)
(* and sunionstore bind dest to what _apply_to_sets returns, which for one *)
(* key that holds members is the stored object itself; any other command   *)
(* rebinds or deletes the keys it writes.                                  *)
Objects(op, keys, o) ==
    LET held(k) == k \in DOMAIN redis /\ redis[k].t = "set"
        unset == {k \in DOMAIN redis : k \notin DOMAIN o.redis \/ o.redis[k].t # "set"}
    IN IF o.err # NoError THEN [redis |-> o.redis, aliases |-> Regroup(unset, {}, "")]
       ELSE IF op \in {"sadd", "srem", "spop"} /\ held(keys[1])
       THEN [redis |-> update_in_place(o.redis, keys[1], Peers(keys[1])),
             aliases |-> Regroup(unset, {}, "")]
       ELSE IF op = "smove" /\ o.ret = BoolV(TRUE) /\ held(keys[1])
       THEN IF keys[2] \in Peers(keys[1])
            THEN \* one set object: discard, then add
                 [redis |-> redis, aliases |-> aliases]
            ELSE [redis |-> update_in_place(
                                update_in_place(o.redis, keys[1], Peers(keys[1])),
                                keys[2], IF held(keys[2]) THEN Peers(keys[2]) ELSE {}),
                  aliases |-> aliases]
       ELSE IF op \in {"sdiffstore", "sinterstore", "sunionstore"}
       THEN IF Len(keys) = 2 /\ held(keys[2]) /\ redis[keys[2]].v # {}
            THEN [redis |-> o.redis,
                  aliases |-> IF keys[1] = keys[2] THEN aliases
                             ELSE Regroup({keys[1]}, {keys[1]}, keys[2])]
            ELSE [redis |-> o.redis, aliases |-> Regroup({keys[1]}, {}, "")]
       ELSE [redis |-> o.redis, aliases |-> Regroup(unset, {}, "")]

Call(op, keys, args, o) ==
    /\ redis' = Objects(op, keys, o).redis
    /\ aliases' = Objects(op, keys, o).aliases
    /\ timeouts' = o.timeouts
    /\ last' = [op |-> op, keys |-> keys, args |-> args, ret |-> o.ret, err |-> o.err]
    /\ UNCHANGED <<now, config, caller>>

(* A command that reads: the dictionaries stay, `ret` is returned.         *)
Read(op, keys, args, ret) == Call(op, keys, args, Outcome(redis, timeouts, ret, NoError))

(* The clock collaborator moves on by `d` microseconds.                    *)
Tick(d) ==
    /\ now' = now + d
    /\ last' = [op |-> "tick", keys |-> <<>>, args |-> <<d>>, ret |-> None, err |-> NoError]
    /\ UNCHANGED <<redis, timeouts, config, caller, aliases>>

Op_type(key) == Read("type", <<key>>, <<>>, StrV(type(redis, key)))

Op_exists(key) == Read("exists", <<key>>, <<>>, BoolV(exists(redis, key)))

Op_delete(keys) == Call("delete", keys, <<>>, delete(redis, timeouts, keys))

Op_expire(key, seconds) ==
    Call("expire", <<key>>, <<seconds>>, expire(redis, timeouts, now, key, seconds))

Op_pexpire(key, milliseconds) ==
    Call("pexpire", <<key>>, <<milliseconds>>, pexpire(redis, timeouts, now, key, milliseconds))

Op_expireat(key, when) ==
    Call("expireat", <<key>>, <<when>>, expireat(redis, timeouts, key, when))

Op_ttl(key) == Read("ttl", <<key>>, <<>>, ttl(redis, timeouts, now, key))

Op_pttl(key) == Read("pttl", <<key>>, <<>>, pttl(redis, timeouts, now, key))

(* do_expire: which of the two the interpreter runs is fixed by the build; *)
(* under the view, nothing is deleted when no entry is expired.            *)
Op_do_expire ==
    \/ Call("do_expire", <<>>, <<"list">>, do_expire_list(redis, timeouts, now))
    \/ /\ Expired(timeouts, now) = {}
       /\ Call("do_expire", <<>>, <<"view">>, Outcome(redis, timeouts, None, NoError))
    \/ \E key \in Expired(timeouts, now) :
          Call("do_expire", <<>>, <<"view">>, do_expire_view(redis, timeouts, now, key))

Op_flushdb == Call("flushdb", <<>>, <<>>, flushdb(redis, timeouts))

(* Variant of get that sweeps before it reads, as a server with lazy      *)
(* expiry would.                                                           *)
Op_get_sweeping(key) ==
    LET o == do_expire_list(redis, timeouts, now)
    IN Call("get", <<key>>, <<>>, Outcome(o.redis, o.timeouts, get(o.redis, key), NoError))

Op_get(key) == Read("get", <<key>>, <<>>, get(redis, key))

Op_set(key, value, opt) ==
    Call("set", <<key>>, <<value, opt>>,
         set(redis, timeouts, now, key, value, opt.ex, opt.px, opt.nx, opt.xx))

Op_setnx(key, value) ==
    Call("setnx", <<key>>, <<value>>, setnx(redis, timeouts, now, key, value))

Op_incr(key) ==
    LET o == incr(redis, timeouts, key, 1)
    IN /\ o.err = NoError => o.ret.v <= MaxCounter
       /\ Call("incr", <<key>>, <<1>>, o)

Op_decr(key) ==
    LET o == decr(redis, timeouts, key, 1)
    IN /\ o.err = NoError => o.ret.v >= 0
       /\ Call("decr", <<key>>, <<1>>, o)

Op_lpush(key, args) ==
    LET o == lpush(redis, timeouts, key, args)
    IN /\ o.err = NoError => Len(o.redis[key].v) <= MaxLen
       /\ Call("lpush", <<key>>, args, o)

Op_rpush(key, args) ==
    LET o == rpush(redis, timeouts, key, args)
    IN /\ o.err = NoError => Len(o.redis[key].v) <= MaxLen
       /\ Call("rpush", <<key>>, args, o)

Op_lpop(key) == Call("lpop", <<key>>, <<>>, lpop(redis, timeouts, key))

Op_rpop(key) == Call("rpop", <<key>>, <<>>, rpop(redis, timeouts, key))

Op_lrem(key, value, count) ==
    Call("lrem", <<key>>, <<value, count>>, lrem(redis, timeouts, key, value, count))

Op_ltrim(key, start, stop) ==
    Call("ltrim", <<key>>, <<start, stop>>, ltrim(redis, timeouts, key, start, stop))

Op_rpoplpush(source, destination) ==
    LET o == rpoplpush(redis, timeouts, source, destination)
    IN /\ o.err = NoError /\ o.ret # None => Len(o.redis[destination].v) <= MaxLen
       /\ Call("rpoplpush", <<source, destination>>, <<>>, o)

Op_lrange(key, start, stop) ==
    Call("lrange", <<key>>, <<start, stop>>, lrange(redis, timeouts, key, start, stop))


Op_llen(key) == Call("llen", <<key>>, <<>>, llen(redis, timeouts, key))

Op_sadd(key, values) == Call("sadd", <<key>>, <<values>>, sadd(redis, timeouts, key, values))

Op_scard(key) == Call("scard", <<key>>, <<>>, scard(redis, timeouts, key))

Op_srem(key, values) == Call("srem", <<key>>, <<values>>, srem(redis, timeouts, key, values))

Op_spop(name) ==
    \E member \in (IF type(redis, name) = "set" /\ redis[name].v # {}
                   THEN redis[name].v ELSE {""}) :
        Call("spop", <<name>>, <<>>, spop(redis, timeouts, name, member))

Op_smove(src, dst, value) ==
    Call("smove", <<src, dst>>, <<value>>, smove(redis, timeouts, src, dst, value))

Op_sdiffstore(dest, keys) ==
    Call("sdiffstore", <<dest>> \o keys, <<>>, sdiffstore(redis, timeouts, dest, keys))

Op_sinterstore(dest, keys) ==
    Call("sinterstore", <<dest>> \o keys, <<>>, sinterstore(redis, timeouts, dest, keys))

Op_sunionstore(dest, keys) ==
    Call("sunionstore", <<dest>> \o keys, <<>>, sunionstore(redis, timeouts, dest, keys))

Op_hset(hashkey, attribute, value) ==
    Call("hset", <<hashkey>>, <<attribute, value>>, hset(redis, timeouts, hashkey, attribute, value))

Op_hget(hashkey, attribute) ==
    Call("hget", <<hashkey>>, <<attribute>>, hget(redis, timeouts, hashkey, attribute))

Op_hdel(hashkey, keys) == Call("hdel", <<hashkey>>, keys, hdel(redis, timeouts, hashkey, keys))

Op_zadd(name, args) == Call("zadd", <<name>>, args, zadd(redis, timeouts, strict, name, args))

Op_zcard(name) == Call("zcard", <<name>>, <<>>, zcard(redis, timeouts, name))

Op_zincrby(name, value, amount) ==
    LET o == zincrby(redis, timeouts, name, value, amount)
    IN /\ o.err = NoError => o.ret.v <= MaxScore
       /\ Call("zincrby", <<name>>, <<value, amount>>, o)

Op_zrem(name, values) == Call("zrem", <<name>>, values, zrem(redis, timeouts, name, values))

Op_zremrangebyrank(name, start, end) ==
    Call("zremrangebyrank", <<name>>, <<start, end>>,
         zremrangebyrank(redis, timeouts, name, start, end))

Op_zremrangebyscore(name, min, max) ==
    Call("zremrangebyscore", <<name>>, <<min, max>>,
         zremrangebyscore(redis, timeouts, name, min, max))

Op_zrank(name, value) == Call("zrank", <<name>>, <<value>>, zrank(redis, timeouts, name, value))

Op_zrevrank(name, value) ==
    Call("zrevrank", <<name>>, <<value>>, zrevrank(redis, timeouts, name, value))

Op_zrange(name, start, end, desc, withscores) ==
    Call("zrange", <<name>>, <<start, end, desc, withscores>>,
         zrange(redis, timeouts, name, start, end, desc, withscores))

Op_zrangebyscore(name, min, max, start, num, withscores) ==
    Call("zrangebyscore", <<name>>, <<min, max, start, num, withscores>>,
         zrangebyscore(redis, timeouts, name, min, max, start, num, withscores))

Op_zrevrangebyscore(name, max, min, start, num, withscores) ==
    Call("zrevrangebyscore", <<name>>, <<max, min, start, num, withscores>>,
         zrevrangebyscore(redis, timeouts, name, max, min, start, num, withscores))

Op_zcount(name, min, max) ==
    Call("zcount", <<name>>, <<min, max>>, zcount(redis, timeouts, name, min, max))


ScoresBounded(R, name) ==
    name \in DOMAIN R /\ R[name].t = "zset" => \A m \in DOMAIN R[name].v : R[name].v[m] <= MaxScore

Op_zunionstore(dest, keys, aggregate) ==
    LET o == zunionstore(redis, timeouts, dest, keys, aggregate)
    IN /\ ScoresBounded(o.redis, dest)
       /\ Call("zunionstore", <<dest>> \o keys, <<aggregate>>, o)

Op_zinterstore(dest, keys, aggregate) ==
    LET o == zinterstore(redis, timeouts, dest, keys, aggregate)
    IN /\ ScoresBounded(o.redis, dest)
       /\ Call("zinterstore", <<dest>> \o keys, <<aggregate>>, o)

Op_call(command, args) ==
    Call("call", <<args[1]>>, <<command>> \o Tail(args),
         call(redis, timeouts, strict, command, args))

(* One call of scan, sscan, hscan or zscan by a caller that pages through  *)
(* the collection: it keeps the pages and calls again with the cursor      *)
(* returned until that is '0'.  A call that raises, or one with a page     *)
(* size below 1, starts no loop.                                           *)
Op_scan(cmd, name, cursor, match, count) ==
    LET o == CASE cmd = "scan" -> scan(redis, timeouts, cursor, match, count)
               [] cmd = "sscan" -> sscan(redis, timeouts, name, cursor, match, count)
               [] cmd = "hscan" -> hscan(redis, timeouts, name, cursor, match, count)
               [] cmd = "zscan" -> zscan(redis, timeouts, name, cursor, match, count)
    IN /\ last' = [op |-> cmd, keys |-> IF cmd = "scan" THEN <<>> ELSE <<name>>,
                   args |-> <<cursor, match, count>>, ret |-> o.ret, err |-> o.err]
       /\ scanning' = IF o.err # NoError \/ count = None \/ count.v < 1 THEN Idle
                      ELSE [pc |-> IF o.ret.v[1] = "0" THEN "done" ELSE "looping",
                            cmd |-> cmd, name |-> name, match |-> match, count |-> count,
                            cursor |-> o.ret.v[1],
                            pages |-> (IF cursor = "0" THEN <<>> ELSE scanning.pages)
                                      \o <<o.ret.v[2]>>]
       /\ UNCHANGED <<redis, timeouts, now, config, wall, blocking, aliases>>

ScanFirst(cmd, name, match, count) ==
    /\ scanning = Idle
    /\ Op_scan(cmd, name, "0", match, count)

ScanNext ==
    /\ scanning.pc = "looping"
    /\ Op_scan(scanning.cmd, scanning.name, scanning.cursor, scanning.match, scanning.count)

(* The caller is through with the pages it collected.                      *)
ScanEnd ==
    /\ scanning.pc = "done"
    /\ scanning' = Idle
    /\ UNCHANGED <<redis, timeouts, now, last, config, wall, blocking, aliases>>


(* A step of a blocking pop: the state it leaves, the call recorded once   *)
(* it returns, and its local variables kept while it sleeps.               *)
Blocking(b, given, o, wall_) ==
    /\ redis' = o.redis
    /\ timeouts' = o.timeouts
    /\ wall' = wall_
    /\ blocking' = IF o.pc = "idle" THEN Idle ELSE b
    /\ last' = IF o.pc = "idle"
               THEN [op |-> b.op, keys |-> b.keys \o b.destination, args |-> <<given.t, given.v>>,
                     ret |-> o.ret, err |-> o.err]
               ELSE last
    /\ UNCHANGED <<now, config, scanning, aliases>>

(* blpop, brpop (destination <<>>) or brpoplpush is called.                *)
Op_blocking_pop(op, keys, destination, timeout) ==
    LET b == [pc |-> "sleeping", op |-> op, pop_func |-> IF op = "blpop" THEN "lpop" ELSE "rpop",
              keys |-> keys, destination |-> destination, given |-> timeout,
              timeout |-> 0, start |-> wall]
        o == _blocking_pop(redis, timeouts, b, timeout, blocking_timeout)
    IN /\ blocking = Idle
       /\ Blocking([b EXCEPT !.timeout = o.timeout], timeout, o, wall)

(* time.sleep returns after `slept` and the loop goes on.                  *)
Wake(slept) ==
    /\ blocking.pc = "sleeping"
    /\ slept >= blocking_sleep_interval
    /\ Blocking(blocking, blocking.given,
                _blocking_pop_loop(redis, timeouts, blocking, wall + slept - blocking.start),
                wall + slept)


----------------------------------------------------------------------------
(* Spec: the key space with every type of value and the expiry commands,   *)
(* on a non-strict engine (the constructor's default).                     *)

Plain == [ex |-> None, px |-> None, nx |-> FALSE, xx |-> FALSE]

Start ==
    /\ redis = EmptyDict
    /\ timeouts = EmptyDict
    /\ now = 0
    /\ last = [op |-> "init", keys |-> <<>>, args |-> <<>>, ret |-> None, err |-> NoError]
    /\ wall = 0
    /\ blocking = Idle
    /\ scanning = Idle
    /\ aliases = {}

(* MockRedis(): every parameter of the constructor at its default.         *)
Init ==
    /\ Start
    /\ strict = FALSE
    /\ blocking_timeout = DefaultBlockingTimeout
    /\ blocking_sleep_interval = 1

TickStep == 2 * UsPerSec

Next ==
    \/ now < MaxTicks * TickStep /\ Tick(TickStep)
    \/ \E k \in Keys : Op_type(k)
    \/ \E k \in Keys : Op_exists(k)
    \/ \E k \in Keys : Op_get(k)
    \/ \E k \in Keys : Op_ttl(k)
    \/ \E ks \in {<<"k1">>, <<"k2">>, <<"k1", "k2">>, <<"k2", "k2">>} : Op_delete(ks)
    \/ \E k \in Keys : Op_expire(k, 1)
    \/ \E k \in Keys : Op_pexpire(k, 1000)
    \/ \E k \in Keys : Op_expireat(k, 1)
    \/ Op_do_expire
    \/ Op_flushdb
    \/ \E k \in Keys, opt \in {Plain, [Plain EXCEPT !.ex = IntV(1)]} : Op_set(k, "a", opt)
    \/ \E k \in Keys : Op_lpush(k, <<"a">>)
    \/ \E k \in Keys : Op_lpop(k)
    \/ \E k \in Keys : Op_sadd(k, {"a"})
    \/ \E k \in Keys : Op_srem(k, {"a"})
    \/ \E k \in Keys : Op_hset(k, "a", "a")
    \/ \E k \in Keys : Op_hdel(k, <<"a">>)
    \/ \E k \in Keys : Op_zadd(k, <<"a", 1>>)
    \/ \E k \in Keys : Op_zrem(k, <<"a">>)

Spec == Init /\ [][Next]_vars

----------------------------------------------------------------------------
(* SpecTTL: one string key under a clock that advances by half a           *)
(* millisecond, with expiry set in seconds and in milliseconds.            *)

FineStep == UsPerMs \div 2

NextTTL ==
    \/ now < MaxFineTicks * FineStep /\ Tick(FineStep)
    \/ Op_set("k1", "a", Plain)
    \/ Op_delete(<<"k1">>)
    \/ \E seconds \in {0, 1} : Op_expire("k1", seconds)
    \/ \E milliseconds \in {1, 1000} : Op_pexpire("k1", milliseconds)
    \/ Op_expireat("k1", 1)
    \/ Op_ttl("k1")
    \/ Op_pttl("k1")
    \/ Op_do_expire

SpecTTL == Init /\ [][NextTTL]_vars

----------------------------------------------------------------------------
(* SpecZ: sorted sets beside strings, with the two store commands.         *)

Members == {"a", "b"}

NextZ ==
    \/ \E k \in Keys : Op_type(k)
    \/ \E k \in Keys : Op_set(k, "a", Plain)
    \/ \E k \in Keys : Op_delete(<<k>>)
    \/ \E k \in Keys, m \in Members : Op_zadd(k, <<m, 1>>)
    \/ \E k \in Keys : Op_zadd(k, <<"a">>)
    \/ \E k \in Keys, m \in Members : Op_zrem(k, <<m>>)
    \/ \E k \in Keys : Op_zcard(k)
    \/ \E d \in Keys, k1 \in Keys, k2 \in Keys : Op_zunionstore(d, <<k1, k2>>, None)
    \/ \E d \in Keys, k1 \in Keys, k2 \in Keys : Op_zinterstore(d, <<k1, k2>>, None)

SpecZ == Init /\ [][NextZ]_vars

----------------------------------------------------------------------------
(* SpecAgg: two sorted sets with scores that differ, and the two store     *)
(* commands under each aggregate, named in either case or not at all.      *)

Aggregates == {None, StrV("sum"), StrV("min"), StrV("MAX"), StrV("avg")}

NextAgg ==
    \/ \E k \in Keys, m \in Members, s \in 1..MaxScore : Op_zadd(k, <<m, s>>)
    \/ \E k \in Keys : Op_delete(<<k>>)
    \/ \E k \in Keys : Op_zcard(k)
    \/ \E d \in Keys, ks \in {<<"k1", "k2">>, <<"k2", "k2">>}, a \in Aggregates :
          Op_zunionstore(d, ks, a)
    \/ \E d \in Keys, ks \in {<<"k1", "k2">>, <<"k2", "k2">>}, a \in Aggregates :
          Op_zinterstore(d, ks, a)

SpecAgg == Init /\ [][NextAgg]_vars

----------------------------------------------------------------------------
(* SpecL: one list built at either end and read by index ranges that reach *)
(* past both ends.                                                         *)

Indices == (0 - MaxLen - 2)..(MaxLen + 2)

NextL ==
    \/ \E v \in Members : Op_rpush("k1", <<v>>)
    \/ \E v \in Members : Op_lpush("k1", <<v>>)
    \/ Op_lpop("k1")
    \/ Op_llen("k1")
    \/ \E start \in Indices, stop \in Indices : Op_lrange("k1", start, stop)

SpecL == Init /\ [][NextL]_vars

----------------------------------------------------------------------------
(* SpecZR: one sorted set read by score range in both directions, with     *)
(* and without a limit; the limit's offset runs from below zero to past    *)
(* the length.                                                             *)

Offsets == (0 - Cardinality(Members))..(Cardinality(Members) + 1)

Limits == {<<None, None>>, <<IntV(0), None>>}
            \cup {<<IntV(start), IntV(num)>> : start \in Offsets, num \in Offsets}

NextZR ==
    \/ \E m \in Members, s \in 1..MaxScore : Op_zadd("k1", <<m, s>>)
    \/ \E m \in Members, s \in 1..MaxScore : Op_zadd("k1", <<"a", s, m, 1>>)
    \/ \E m \in Members : Op_zrem("k1", <<m>>)
    \/ \E m \in Members : Op_zincrby("k1", m, 1)
    \/ \E m \in Members \cup {"k2"} : Op_zrank("k1", m)
    \/ \E m \in Members \cup {"k2"} : Op_zrevrank("k1", m)
    \/ \E desc \in BOOLEAN, withscores \in BOOLEAN : Op_zrange("k1", 0, -1, desc, withscores)
    \/ Op_zcard("k1")
    \/ \E max \in 1..MaxScore, lim \in Limits :
          Op_zrangebyscore("k1", 1, max, lim[1], lim[2], FALSE)
    \/ \E max \in 1..MaxScore, lim \in Limits :
          Op_zrevrangebyscore("k1", max, 1, lim[1], lim[2], FALSE)
    \/ \E min \in 1..MaxScore, max \in 1..MaxScore :
          \/ Op_zrangebyscore("k1", min, max, None, None, TRUE)
          \/ Op_zrevrangebyscore("k1", max, min, None, None, TRUE)
          \/ Op_zcount("k1", min, max)

SpecZR == Init /\ [][NextZR]_vars

----------------------------------------------------------------------------
(* SpecScan: a set under k1 and a hash or a sorted set under k2, paged     *)
(* through by a caller; nothing is written while a loop is under way.      *)

Patterns == {None, StrV("*1"), StrV("a*")}

Scannable == {"a", "b", "k1"}

NextScan ==
    \/ /\ scanning = Idle
       /\ \/ \E m \in Scannable : Op_sadd("k1", {m})
          \/ \E f \in Members : Op_hset("k2", f, "a")
          \/ \E m \in Members : Op_zadd("k2", <<m, Ord(m)>>)
          \/ Op_delete(<<"k2">>)
    \/ \E cmd \in {"scan", "hscan", "zscan"}, match \in {None, StrV("a*")},
          count \in {IntV(0), IntV(1), IntV(2)} : ScanFirst(cmd, "k2", match, count)
    \/ \E match \in Patterns, count \in {IntV(-1), IntV(0), IntV(1), IntV(2), IntV(3)} :
          ScanFirst("sscan", "k1", match, count)
    \/ ScanNext
    \/ ScanEnd

SpecScan == Init /\ [][NextScan]_vars

----------------------------------------------------------------------------
(* SpecB: two lists that hold "a" and the empty string, filled by one      *)
(* caller while another is in a blocking pop; the engine is built with a   *)
(* default timeout of no or one second and polls twice a second.           *)

InitB ==
    /\ Start
    /\ strict = FALSE
    /\ blocking_timeout \in {0, 1}
    /\ blocking_sleep_interval = WallPerSec \div 2

QueuedAt(k) == IF k \in DOMAIN redis THEN Len(redis[k].v) ELSE 0

Queued == QueuedAt("k1") + QueuedAt("k2")

Timeouts == {IntV(-1), IntV(0), IntV(1), FloatV(1), StrV("a")}

NextB ==
    \/ \E k \in Keys, v \in {"", "a"} : Queued < MaxQueued /\ Op_rpush(k, <<v>>)
    \/ \E op \in {"blpop", "brpop"}, keys \in {<<"k1", "k2">>, <<"k2">>}, timeout \in Timeouts :
          wall < MaxWall /\ Op_blocking_pop(op, keys, <<>>, timeout)
    \/ \E timeout \in {IntV(-1), IntV(1), FloatV(1)} :
          wall < MaxWall /\ Op_blocking_pop("brpoplpush", <<"k1">>, <<"k2">>, timeout)
    \/ \E polls \in 1..2 : Wake(polls * blocking_sleep_interval)

SpecB == InitB /\ [][NextB]_vars

----------------------------------------------------------------------------
(* SpecBLive: SpecB in which time.sleep always returns.                    *)

SpecBLive == SpecB /\ WF_vars(\E polls \in 1..2 : Wake(polls * blocking_sleep_interval))

----------------------------------------------------------------------------
(* SpecCall: a strict or a non-strict engine that scripts reach through    *)
(* call, with zadd argument lists of even and of odd length.               *)

InitCall ==
    /\ Start
    /\ strict \in BOOLEAN
    /\ blocking_timeout = DefaultBlockingTimeout
    /\ blocking_sleep_interval = 1

ScoreMembers == {<<s, m>> : s \in 1..2, m \in Members}

ZaddLists ==
    {<<>>} \cup {<<1>>} \cup ScoreMembers
    \cup {p \o <<2>> : p \in ScoreMembers}
    \cup {p \o q : p \in ScoreMembers, q \in ScoreMembers}

NextCall ==
    \/ \E k \in Keys : Op_set(k, "a", Plain)
    \/ \E k \in Keys : Op_call("DEL", <<k>>)
    \/ \E k \in Keys : Op_call("zcard", <<k>>)
    \/ \E command \in {"foo", "FOO", "redis", "Redis", "STRICT", "_set"} : Op_call(command, <<"k1", "a">>)
    \/ \E command \in {"zadd", "ZADD"}, l \in ZaddLists : Op_call(command, <<"k1">> \o l)

SpecCall == InitCall /\ [][NextCall]_vars

----------------------------------------------------------------------------
(* SpecRange: a sorted set under k1 that scripts read through call with    *)
(* the range commands, the LIMIT group and the WITHSCORES token being      *)
(* given in either order and in several letter cases.                      *)

LimitGroups == {<<StrV(w), IntV(offset), IntV(count)>> :
                   w \in {"LIMIT", "Limit"}, offset \in 0..1, count \in {1}}

ScoreTokens == {<<StrV(w)>> : w \in {"withscores", "WITHSCORES"}}

Extras ==
    {<<>>} \cup LimitGroups \cup ScoreTokens
    \cup {l \o w : l \in LimitGroups, w \in ScoreTokens}
    \cup {w \o l : l \in LimitGroups, w \in ScoreTokens}

NextRange ==
    \/ \E m \in Members, s \in 1..MaxScore : Op_zadd("k1", <<m, s>>)
    \/ \E m \in Members : Op_zrem("k1", <<m>>)
    \/ \E max \in 1..MaxScore, extras \in Extras :
          Op_call("zrangebyscore", <<"k1", 1, max>> \o extras)
    \/ \E extras \in Extras : Op_call("ZRevRangeByScore", <<"k1", MaxScore, 1>> \o extras)
    \/ \E command \in {"zrange", "ZREVRANGE"}, start \in 0..1, extras \in {<<>>} \cup ScoreTokens :
          Op_call(command, <<"k1", start, -1>> \o extras)

SpecRange == Init /\ [][NextRange]_vars

----------------------------------------------------------------------------
(* SpecRem: a list, a set, a hash or a sorted set under k1 that the        *)
(* removal commands empty, with k2 as the other end of a move.             *)

NextRem ==
    \/ \E k \in Keys : Op_type(k)
    \/ \E k \in Keys : Op_exists(k)
    \/ \E k \in Keys : Op_delete(<<k>>)
    \/ \E v \in Members : Op_rpush("k1", <<v>>)
    \/ \E m \in Members : Op_sadd("k1", {m})
    \/ \E f \in Members : Op_hset("k1", f, "a")
    \/ \E m \in Members : Op_zadd("k1", <<m, 1>>)
    \/ \E f \in Members : Op_hdel("k1", <<f>>)
    \/ \E m \in Members : Op_srem("k1", {m})
    \/ Op_spop("k1")
    \/ \E m \in Members : Op_smove("k1", "k2", m)
    \/ \E m \in Members : Op_zrem("k1", <<m>>)
    \/ \E end \in {0, -1} : Op_zremrangebyrank("k1", 0, end)
    \/ \E min \in 1..2 : Op_zremrangebyscore("k1", min, 2)
    \/ Op_lpop("k1")
    \/ Op_rpop("k1")
    \/ Op_rpoplpush("k1", "k2")
    \/ \E v \in Members, count \in {-1, 0, 1} : Op_lrem("k1", v, count)

SpecRem == Init /\ [][NextRem]_vars

----------------------------------------------------------------------------
(* SpecMove: a list under k1 whose tail rpoplpush and brpoplpush move to   *)
(* k2, which is absent or holds a list or a string.                        *)

NextMove ==
    \/ \E v \in Members : Queued < MaxQueued /\ Op_rpush("k1", <<v>>)
    \/ Op_set("k2", "a", Plain)
    \/ Op_delete(<<"k2">>)
    \/ Op_rpoplpush("k1", "k2")
    \/ \E timeout \in {IntV(0), IntV(1)} :
          wall < MaxWall /\ Op_blocking_pop("brpoplpush", <<"k1">>, <<"k2">>, timeout)
    \/ \E polls \in 1..2 : Wake(polls * blocking_sleep_interval)

SpecMove == InitB /\ [][NextMove]_vars

----------------------------------------------------------------------------
(* SpecShare: sets under two keys, built by sadd and by the store commands *)
(* from one source key or from both, and changed member by member.         *)

NextShare ==
    \/ \E k \in Keys, m \in Members : Op_sadd(k, {m})
    \/ \E k \in Keys, m \in Members : Op_srem(k, {m})
    \/ \E k \in Keys : Op_spop(k)
    \/ \E m \in Members : Op_smove("k1", "k2", m)
    \/ \E dest \in Keys, keys \in {<<"k1">>, <<"k2">>, <<"k1", "k2">>} :
          \/ Op_sdiffstore(dest, keys)
          \/ Op_sinterstore(dest, keys)
          \/ Op_sunionstore(dest, keys)
    \/ \E k \in Keys : Op_delete(<<k>>)

SpecShare == Init /\ [][NextShare]_vars

----------------------------------------------------------------------------
(* SpecNX: callers that take a key with setnx, each with a value of its    *)
(* own, beside set in each of its modes, expiry, the sweep and delete.     *)

SetModes ==
    {Plain, [Plain EXCEPT !.ex = IntV(1)], [Plain EXCEPT !.xx = TRUE],
     [Plain EXCEPT !.xx = TRUE, !.ex = IntV(1)], [Plain EXCEPT !.nx = TRUE, !.xx = TRUE]}

NextNX ==
    \/ now < MaxTicks * TickStep /\ Tick(TickStep)
    \/ \E k \in Keys, v \in Members : Op_setnx(k, v)
    \/ \E k \in Keys, opt \in SetModes : Op_set(k, "a", opt)
    \/ \E k \in Keys : Op_expire(k, 1)
    \/ \E k \in Keys : Op_delete(<<k>>)
    \/ Op_do_expire

SpecNX == Init /\ [][NextNX]_vars

----------------------------------------------------------------------------
(* Properties                                                              *)

Range(seq) == {seq[i] : i \in DOMAIN seq}

ReadOps == {"type", "exists", "get", "ttl", "pttl", "llen", "scard", "hget", "zcard"}

StoreOps == {"sdiffstore", "sinterstore", "sunionstore", "zunionstore", "zinterstore"}

(* The type a command requires of the values it works on.                  *)
RequiredType(op) ==
    CASE op \in {"get", "incr", "decr"} -> "string"
      [] op \in {"lpush", "rpush", "lpop", "rpop", "lrem", "ltrim", "rpoplpush", "llen"} -> "list"
      [] op \in {"sadd", "scard", "srem", "spop", "smove",
                 "sdiffstore", "sinterstore", "sunionstore"} -> "set"
      [] op \in {"hset", "hget", "hdel"} -> "hash"
      [] op \in {"zadd", "zcard", "zincrby", "zrem", "zunionstore", "zinterstore"} -> "zset"
      [] OTHER -> "any"

(* The keys whose value a call works on as its type: every key named,      *)
(* but for a store command, whose first key is only written.               *)
TypedKeys(c) == IF c.op \in StoreOps THEN Range(Tail(c.keys)) ELSE Range(c.keys)

(* Key k has the same value and the same expiry entry in both states.      *)
SameKey(k) ==
    /\ (k \in DOMAIN redis') = (k \in DOMAIN redis)
    /\ k \in DOMAIN redis => redis'[k] = redis[k]
    /\ (k \in DOMAIN timeouts') = (k \in DOMAIN timeouts)
    /\ k \in DOMAIN timeouts => timeouts'[k] = timeouts[k]

(* C1: a plain set(k, v) succeeds for every prior state of k, and a get(k) *)
(* right after it returns v; type(k) is 'string' and ttl(k) reports 'no    *)
(* timeout' because the expiry entry of k is gone.                         *)
C1_PlainSetThenGet ==
    (last.op = "set" /\ last.args[2] = Plain) =>
        LET k == last.keys[1]
        IN /\ last.err = NoError
           /\ get(redis, k) = StrV(last.args[1])
           /\ type(redis, k) = "string"
           /\ ttl(redis, timeouts, now, k) = None
           /\ k \notin DOMAIN timeouts

(* A plain set has written k1 after the clock moved, while the other key   *)
(* holds a list with an expiry entry.                                      *)
C1_Witness ==
    /\ last.op = "set" /\ last.args[2] = Plain /\ last.keys = <<"k1">>
    /\ redis["k1"] = StrV("a")
    /\ now > 0
    /\ type(redis, "k2") = "list" /\ "k2" \in DOMAIN timeouts

(* C2: a type-specific command on an existing key of another type fails    *)
(* with the type-mismatch error and leaves namespace and TTL registry as   *)
(* they were; and the type of an existing key changes only by a string set *)
(* or as the destination of a store command.                               *)
C2_WrongTypeFails ==
    [][/\ (\E k \in TypedKeys(last') :
              k \in DOMAIN redis /\ RequiredType(last'.op) \notin {"any", redis[k].t})
          => (last'.err = "TypeError" /\ redis' = redis /\ timeouts' = timeouts)
       /\ \A k \in (DOMAIN redis) \cap (DOMAIN redis') :
              redis'[k].t # redis[k].t
              => \/ last'.op = "set"
                 \/ last'.op \in StoreOps /\ k = last'.keys[1]]_vars

(* C3: no key of the namespace holds an empty list, set, hash or sorted    *)
(* set.                                                                    *)
C3_NoEmptyCollection ==
    \A k \in DOMAIN redis : redis[k].t \in {"list", "set", "hash", "zset"} => Truthy(redis[k])

(* C4: every key with an entry in the TTL registry is in the namespace.    *)
C4_ExpiryOnlyForPresentKeys == \A k \in DOMAIN timeouts : k \in DOMAIN redis

(* C5: delete removes the value and the expiry entry of every key named,   *)
(* returns the number of distinct named keys that were present, and leaves *)
(* value and expiry entry of every other key as they were.                 *)
C5_DeleteBoth ==
    [][last'.op = "delete" =>
        LET named == Range(last'.keys)
        IN /\ last'.err = NoError
           /\ \A k \in named : k \notin DOMAIN redis' /\ k \notin DOMAIN timeouts'
           /\ last'.ret = IntV(Cardinality(named \cap DOMAIN redis))
           /\ \A k \in Keys \ named : SameKey(k)]_vars

(* delete named one present key twice and returned 1; the other key kept   *)
(* its value and its expiry entry.                                         *)
C5_Witness ==
    /\ last.op = "delete" /\ last.keys = <<"k2", "k2">> /\ last.ret = IntV(1)
    /\ "k1" \in DOMAIN redis /\ "k1" \in DOMAIN timeouts

(* C6: do_expire completes without error; after it every key whose expiry  *)
(* instant is earlier than now is in neither dictionary, and every other   *)
(* key has its value and its expiry entry unchanged.                       *)
C6_SweepRemovesAllExpired ==
    [][last'.op = "do_expire" =>
        /\ last'.err = NoError
        /\ \A k \in Expired(timeouts, now) : k \notin DOMAIN redis' /\ k \notin DOMAIN timeouts'
        /\ \A k \in Keys \ Expired(timeouts, now) : SameKey(k)]_vars

(* C7: a key whose expiry instant has passed stays in the namespace with   *)
(* its value through every step that is not do_expire, delete, flushdb or  *)
(* a write that names it: clock advances, reads of the key and commands on *)
(* other keys; get, exists and type keep returning it.                     *)
C7_NoImplicitExpiry ==
    [][\A k \in Keys :
        (/\ k \in DOMAIN redis
         /\ k \in Expired(timeouts, now')
         /\ last'.op \notin {"do_expire", "delete", "flushdb"}
         /\ k \in Range(last'.keys) => last'.op \in ReadOps)
        => /\ k \in DOMAIN redis'
           /\ redis'[k] = redis[k]
           /\ get(redis', k) = redis[k]
           /\ exists(redis', k)
           /\ type(redis', k) = redis[k].t]_vars

(* get has read a key whose expiry instant has passed and returned its     *)
(* value.                                                                  *)
C7_Witness ==
    /\ last.op = "get" /\ last.ret = StrV("a")
    /\ last.keys[1] \in Expired(timeouts, now)

(* C8: ttl and pttl return -2 for an absent key, None for a key without    *)
(* expiry entry, and else the time left in their unit, never below -1 and  *)
(* exactly -1 once the expiry instant has passed.                          *)
C8_TimeToLive ==
    last.op \in {"ttl", "pttl"} =>
        LET k == last.keys[1]
            unit == IF last.op = "ttl" THEN UsPerSec ELSE UsPerMs
        IN /\ k \notin DOMAIN redis => last.ret = IntV(-2)
           /\ k \in DOMAIN redis /\ k \notin DOMAIN timeouts => last.ret = None
           /\ k \in DOMAIN redis /\ k \in DOMAIN timeouts =>
                /\ last.ret.t = "int"
                /\ last.ret.v >= -1
                /\ k \in Expired(timeouts, now) => last.ret.v = -1
                /\ k \notin Expired(timeouts, now) =>
                      /\ last.ret.v * unit <= timeouts[k] - now
                      /\ timeouts[k] - now < (last.ret.v + 1) * unit

(* C9: expire, pexpire and expireat on an absent key return false and      *)
(* change nothing; on a present key they return true and store the new     *)
(* instant for that key, leaving its value and every other entry alone.    *)
C9_SetExpiry ==
    [][last'.op \in {"expire", "pexpire", "expireat"} =>
        LET k == last'.keys[1]
            instant == CASE last'.op = "expire" -> now + last'.args[1] * UsPerSec
                         [] last'.op = "pexpire" -> now + last'.args[1] * UsPerMs
                         [] last'.op = "expireat" -> last'.args[1] * UsPerSec
        IN /\ redis' = redis
           /\ k \notin DOMAIN redis => last'.ret = BoolV(FALSE) /\ timeouts' = timeouts
           /\ k \in DOMAIN redis =>
                /\ last'.ret = BoolV(TRUE)
                /\ DOMAIN timeouts' = (DOMAIN timeouts) \cup {k}
                /\ timeouts'[k] = instant
                /\ \A j \in (DOMAIN timeouts) \ {k} : timeouts'[j] = timeouts[j]]_vars

(* expire has stored a new instant for a present key after the clock       *)
(* moved, beside the other key's older entry.                              *)
C9_Witness ==
    /\ last.op = "expire" /\ last.ret = BoolV(TRUE) /\ last.keys = <<"k1">>
    /\ now > 0 /\ timeouts["k1"] = now + UsPerSec
    /\ "k2" \in DOMAIN timeouts /\ timeouts["k2"] < now

(* C10: zunionstore and zinterstore always write dest: after the call dest *)
(* holds the non-empty result as a sorted set and the command returns its  *)
(* size, or the result was empty, dest is absent and the command returns 0.*)
C10_StoreAlwaysWrites ==
    [][(last'.op \in {"zunionstore", "zinterstore"} /\ last'.err = NoError) =>
        LET dest == last'.keys[1]
        IN \/ dest \notin DOMAIN redis' /\ last'.ret = IntV(0)
           \/ /\ dest \in DOMAIN redis'
              /\ redis'[dest].t = "zset"
              /\ DOMAIN redis'[dest].v # {}
              /\ last'.ret = IntV(SS_len(redis'[dest].v))]_vars


(* The sorted set a key holds, as member -> score; an absent key holds no  *)
(* member.                                                                 *)
ZMembers(R, k) == IF k \in DOMAIN R /\ R[k].t = "zset" THEN R[k].v ELSE EmptyDict

(* The scores of member m in the inputs that contain it, in input order.   *)
RECURSIVE ScoresOf(_, _, _)
ScoresOf(R, keys, m) ==
    IF keys = <<>> THEN <<>>
    ELSE (IF m \in DOMAIN ZMembers(R, Head(keys)) THEN <<ZMembers(R, Head(keys))[m]>> ELSE <<>>)
         \o ScoresOf(R, Tail(keys), m)

RECURSIVE SumOf(_)
SumOf(scores) == IF scores = <<>> THEN 0 ELSE Head(scores) + SumOf(Tail(scores))

(* The aggregate of a non-empty list of scores under the aggregate named.  *)
AggregateOf(aggregate, scores) ==
    CASE aggregate \in {None, StrV("sum")} -> SumOf(scores)
      [] aggregate = StrV("min") -> CHOOSE s \in Range(scores) : \A t \in Range(scores) : s <= t
      [] aggregate = StrV("MAX") -> CHOOSE s \in Range(scores) : \A t \in Range(scores) : s >= t

(* C11: after a zunionstore (zinterstore) over inputs that are sorted sets *)
(* or absent, dest holds exactly the members of at least one (of every)    *)
(* input, each with the aggregate of its scores over the inputs that       *)
(* contain it, and the command returns the number of members stored.       *)
C11_StoreAggregates ==
    [][(/\ last'.op \in {"zunionstore", "zinterstore"}
        /\ last'.args[1] \in {None, StrV("sum"), StrV("min"), StrV("MAX")}
        /\ \A k \in Range(Tail(last'.keys)) : k \in DOMAIN redis => redis[k].t = "zset") =>
        LET dest == last'.keys[1]
            keys == Tail(last'.keys)
            expected == IF last'.op = "zunionstore"
                        THEN {m \in Members : \E i \in DOMAIN keys : m \in DOMAIN ZMembers(redis, keys[i])}
                        ELSE {m \in Members : \A i \in DOMAIN keys : m \in DOMAIN ZMembers(redis, keys[i])}
        IN /\ last'.err = NoError
           /\ DOMAIN ZMembers(redis', dest) = expected
           /\ \A m \in expected :
                 ZMembers(redis', dest)[m] = AggregateOf(last'.args[1], ScoresOf(redis, keys, m))
           /\ last'.ret = IntV(Cardinality(expected))]_vars


Clamp(x, lo, hi) == IF x < lo THEN lo ELSE IF x > hi THEN hi ELSE x

(* C13: lrange(key, start, end) on a list of length n returns the elements *)
(* at the positions s..e (from 0) in list order, s and e being start and   *)
(* end counted from the end when negative and clamped to 0..n and -1..n-1; *)
(* nothing when s > e; and it changes no state.                            *)
C13_RangeByIndex ==
    [][last'.op = "lrange" =>
        LET l == IF last'.keys[1] \in DOMAIN redis THEN redis[last'.keys[1]].v ELSE <<>>
            n == Len(l)
            start == last'.args[1]
            end == last'.args[2]
            s == Clamp(IF start < 0 THEN start + n ELSE start, 0, n)
            e == Clamp(IF end < 0 THEN end + n ELSE end, -1, n - 1)
        IN /\ last'.err = NoError
           /\ last'.ret = ListV([i \in 1..(e - s + 1) |-> l[s + i]])
           /\ (last'.ret = ListV(<<>>)) <=> (s > e)
           /\ redis' = redis /\ timeouts' = timeouts]_vars

(* lrange read the last two elements of a list of three by negative        *)
(* indices.                                                                *)
C13_Witness ==
    /\ last.op = "lrange" /\ last.args = <<-2, -1>>
    /\ "k1" \in DOMAIN redis /\ redis["k1"] = ListV(<<"a", "b", "a">>)
    /\ last.ret = ListV(<<"b", "a">>)


(* C14: zrangebyscore and zrevrangebyscore with a limit (start, num) over  *)
(* a score-range result of length n return nothing if num <= 0 or          *)
(* start > n, and else the min(num, n - start) elements from start on,     *)
(* start being clamped to 0..n.                                            *)
C14_LimitOverScoreRange ==
    [][(/\ last'.op \in {"zrangebyscore", "zrevrangebyscore"}
        /\ last'.args[3] # None /\ last'.args[4] # None
        /\ Truthy(get(redis, last'.keys[1]))) =>
        LET name == last'.keys[1]
            whole == IF last'.op = "zrangebyscore"
                     THEN zrangebyscore(redis, timeouts, name, last'.args[1], last'.args[2], None, None, FALSE).ret.v
                     ELSE zrevrangebyscore(redis, timeouts, name, last'.args[1], last'.args[2], None, None, FALSE).ret.v
            n == Len(whole)
            start == last'.args[3].v
            num == last'.args[4].v
            from == Clamp(start, 0, n)
        IN /\ last'.err = NoError
           /\ last'.ret = IF num <= 0 \/ start > n THEN ListV(<<>>)
                          ELSE ListV([i \in 1..Clamp(num, 0, n - from) |-> whole[from + i]])]_vars


(* The names a scan command pages through: the keys, the members of the    *)
(* set or sorted set, the fields of the hash.                              *)
Scanned_names(cmd, name) ==
    CASE cmd = "scan" -> DOMAIN redis
      [] name \notin DOMAIN redis -> {}
      [] cmd = "sscan" -> redis[name].v
      [] OTHER -> DOMAIN redis[name].v

(* The names in one page, and how many entries the page has.               *)
PageNames(cmd, page) ==
    CASE cmd = "hscan" -> DOMAIN page
      [] cmd = "zscan" -> {page[i][1] : i \in DOMAIN page}
      [] OTHER -> Range(page)

(* The names a glob pattern with '*' for any substring matches.            *)
Matching(match) ==
    CASE match = None -> Scannable \cup Keys
      [] match = StrV("*1") -> {"k1"}
      [] match = StrV("a*") -> {"a"}

C16_PageSizePositive ==
    [][(last'.op \in {"scan", "sscan", "hscan", "zscan"} /\ last'.args[3].v <= 0) =>
          last'.err = "ValueError" /\ last'.ret = None]_vars



(* A step in which blpop, brpop or brpoplpush is called, and the call as   *)
(* the step shows it: it either returned at once or is now asleep.         *)
BlockingOps == {"blpop", "brpop", "brpoplpush"}

EntersB == blocking = Idle /\ (blocking' # Idle \/ last'.op \in BlockingOps)

GivenB == [t |-> last'.args[1], v |-> last'.args[2]]

CallB ==
    IF blocking' # Idle
    THEN [op |-> blocking'.op, keys |-> blocking'.keys, given |-> blocking'.given,
          returned |-> FALSE]
    ELSE [op |-> last'.op, keys |-> last'.keys, given |-> GivenB, returned |-> TRUE]

EffectiveTimeout(given) == IF given.v = 0 THEN blocking_timeout ELSE given.v

HoldsList(k) == k \in DOMAIN redis /\ redis[k].t = "list" /\ redis[k].v # <<>>

ListAt(R, k) == IF k \in DOMAIN R THEN R[k].v ELSE <<>>

(* C17: blpop or brpop with a positive effective timeout, called while a   *)
(* candidate key holds a list, returns (k, v) for the first such key k and *)
(* the head (blpop) or tail (brpop) v of its list, the empty string        *)
(* included; that one element is removed and every other key is unchanged. *)
C17_FirstAvailable ==
    [][(/\ EntersB
        /\ CallB.op \in {"blpop", "brpop"}
        /\ CallB.given.t = "int"
        /\ CallB.given.v >= 0
        /\ EffectiveTimeout(CallB.given) > 0
        /\ \E i \in DOMAIN CallB.keys : HoldsList(CallB.keys[i]))
       => LET keys == CallB.keys
              i == CHOOSE i \in DOMAIN keys :
                       HoldsList(keys[i]) /\ \A j \in 1..(i - 1) : ~HoldsList(keys[j])
              k == keys[i]
              l == redis[k].v
              v == IF CallB.op = "blpop" THEN Head(l) ELSE l[Len(l)]
              rest == IF CallB.op = "blpop" THEN Tail(l) ELSE SubSeq(l, 1, Len(l) - 1)
          IN /\ CallB.returned
             /\ last'.err = NoError
             /\ last'.ret = TupleV(<<k, v>>)
             /\ ListAt(redis', k) = rest
             /\ \A other \in Keys \ {k} : ListAt(redis', other) = ListAt(redis, other)]_vars



(* A step in which blpop, brpop or brpoplpush returns.                     *)
ReturnsB == last'.op \in BlockingOps /\ blocking' = Idle

(* C18: a blocking pop given a non-negative integer timeout ends, and over *)
(* empty candidate keys it returns None only from its poll loop, so after  *)
(* at least one pop attempt, and only once the time since the call has     *)
(* reached the effective timeout: the one given, or blocking_timeout when  *)
(* 0 was given.                                                            *)
C18_NoResultAtTimeout ==
    /\ [][(/\ ReturnsB
           /\ GivenB.t = "int"
           /\ GivenB.v >= 0
           /\ last'.err = NoError
           /\ last'.ret = None
           /\ \A i \in DOMAIN last'.keys : ~HoldsList(last'.keys[i]))
          => /\ blocking # Idle
             /\ wall' - blocking.start >= EffectiveTimeout(GivenB) * WallPerSec]_vars
    /\ (blocking # Idle) ~> (blocking = Idle)



(* C19: blpop, brpop and brpoplpush called with a timeout that is not a    *)
(* non-negative integer (a negative integer, a float, a string) raise      *)
(* RuntimeError at once and pop nothing.                                   *)
C19_InvalidTimeout ==
    [][(EntersB /\ (CallB.given.t # "int" \/ CallB.given.v < 0))
       => /\ CallB.returned
          /\ last'.err = "RuntimeError"
          /\ redis' = redis]_vars



(* The flat list (s1, m1, s2, m2, ...) read as pairs, a last score without *)
(* member left out.                                                        *)
ScoreMemberPairs(flat) ==
    [i \in 1..(Len(flat) \div 2) |-> [score |-> flat[2 * i - 1], member |-> flat[2 * i]]]

(* C20: call('zadd', name, s1, m1, ..., sn, mn), and the same call with a  *)
(* list of odd length, has on a non-strict engine the outcome it has on a  *)
(* strict engine in the same state: the same return value or error and the *)
(* same state after it; on success each member is stored with the score    *)
(* before it (the last one given for a member named twice).                *)
C20_CallZaddEitherConvention ==
    [][(last'.op = "call" /\ _normalize_command_name(last'.args[1]) = "zadd")
       => LET name == last'.keys[1]
              flat == Tail(last'.args)
              other == call(redis, timeouts, ~strict, last'.args[1], <<name>> \o flat)
              pairs == ScoreMemberPairs(flat)
          IN /\ other.ret = last'.ret
             /\ other.err = last'.err
             /\ other.redis = redis'
             /\ other.timeouts = timeouts'
             /\ last'.err = NoError
                => \A i \in DOMAIN pairs :
                      (\A j \in DOMAIN pairs : j > i => pairs[j].member # pairs[i].member)
                      => /\ pairs[i].member \in DOMAIN ZMembers(redis', name)
                         /\ ZMembers(redis', name)[pairs[i].member] = pairs[i].score]_vars



(* C21: zadd with an odd number of score and member arguments, on a key    *)
(* that is absent or holds a sorted set, raises RedisError and leaves the  *)
(* namespace and the expiry entries as they were; a key that was absent is *)
(* still absent and its type is 'none'.                                    *)
C21_OddZaddChangesNothing ==
    [][(/\ last'.op = "zadd"
        /\ Len(last'.args) % 2 = 1
        /\ last'.keys[1] \in DOMAIN redis => redis[last'.keys[1]].t = "zset")
       => /\ last'.err = "RedisError"
          /\ redis' = redis
          /\ timeouts' = timeouts
          /\ type(redis', last'.keys[1]) = type(redis, last'.keys[1])]_vars



(* What a script passed after name and bounds: the arguments of the call   *)
(* recorded in `l`, whether WITHSCORES is among them in any letter case,   *)
(* and the offset and count that follow LIMIT.                             *)
ExtrasOf(l) == SubSeq(l.args, 4, Len(l.args))

HasToken(extras, word) ==
    \E i \in DOMAIN extras : extras[i].t = "string" /\ Lower(extras[i].v) = word

LimitOf(extras) ==
    IF HasToken(extras, "limit")
    THEN LET i == CHOOSE i \in DOMAIN extras : extras[i].t = "string" /\ Lower(extras[i].v) = "limit"
         IN <<extras[i + 1], extras[i + 2]>>
    ELSE <<None, None>>

(* The response of a range command as call hands it back: a list of        *)
(* (member, score) tuples becomes member1, score1, member2, score2, ...    *)
Flattened(o) ==
    IF o.ret.t = "tuples"
    THEN FlatV([i \in 1..(2 * Len(o.ret.v)) |-> o.ret.v[(i + 1) \div 2][2 - (i % 2)]])
    ELSE o.ret

(* C22: zrangebyscore and zrevrangebyscore through call, with the LIMIT    *)
(* group and the WITHSCORES token in either order and any letter case,     *)
(* return what the command called directly returns for start = offset,     *)
(* num = count and withscores = (token given), flattened; without extras   *)
(* that is the direct command with its defaults.                           *)
C22_CallRangeByScore ==
    [][(last'.op = "call"
        /\ _normalize_command_name(last'.args[1]) \in {"zrangebyscore", "zrevrangebyscore"})
       => LET name == last'.keys[1]
              extras == ExtrasOf(last')
              limit == LimitOf(extras)
              withscores == HasToken(extras, "withscores")
              direct == IF _normalize_command_name(last'.args[1]) = "zrangebyscore"
                        THEN zrangebyscore(redis, timeouts, name, last'.args[2], last'.args[3],
                                           limit[1], limit[2], withscores)
                        ELSE zrevrangebyscore(redis, timeouts, name, last'.args[2], last'.args[3],
                                              limit[1], limit[2], withscores)
          IN /\ last'.err = direct.err
             /\ last'.ret = Flattened(direct)
             /\ redis' = redis]_vars

(* call returned the second of two members with its score for             *)
(* ZRevRangeByScore with WITHSCORES given before the group Limit 1 1.      *)
C22_Witness ==
    /\ last.op = "call" /\ last.args[1] = "ZRevRangeByScore"
    /\ Len(last.args) = 7 /\ last.args[4] = StrV("WITHSCORES")
    /\ last.args[5] = StrV("Limit") /\ last.args[6] = IntV(1)
    /\ "k1" \in DOMAIN redis /\ redis["k1"] = ZSetV([a |-> 1, b |-> 2])
    /\ last.ret = FlatV(<<"a", 1>>)



(* The range command named `command` called directly with the arguments    *)
(* of the call recorded in `l`, the LIMIT group read as start and num, and *)
(* with the given withscores.                                              *)
DirectRange(command, l, withscores) ==
    LET name == l.keys[1]
        limit == LimitOf(ExtrasOf(l))
    IN CASE command = "zrange" ->
                zrange(redis, timeouts, name, l.args[2], l.args[3], FALSE, withscores)
         [] command = "zrevrange" ->
                zrevrange(redis, timeouts, name, l.args[2], l.args[3], withscores)
         [] command = "zrangebyscore" ->
                zrangebyscore(redis, timeouts, name, l.args[2], l.args[3],
                              limit[1], limit[2], withscores)
         [] command = "zrevrangebyscore" ->
                zrevrangebyscore(redis, timeouts, name, l.args[2], l.args[3],
                                 limit[1], limit[2], withscores)

(* C23: zrange, zrevrange, zrangebyscore and zrevrangebyscore through call *)
(* with the WITHSCORES token return member1, score1, member2, score2, ...  *)
(* for the elements, in the order, that the direct command returns with    *)
(* withscores=True; without the token they return the direct command's     *)
(* list of members.                                                        *)
C23_CallRangeResponse ==
    [][(last'.op = "call" /\ _normalize_command_name(last'.args[1]) \in RangeCommands)
       => LET withscores == HasToken(ExtrasOf(last'), "withscores")
              direct == DirectRange(_normalize_command_name(last'.args[1]), last', withscores)
          IN /\ last'.err = NoError
             /\ last'.ret = Flattened(direct)]_vars



(* The commands of the engine among the names the model dispatches.        *)
EmulatedCommands == {"zadd", "zcard", "delete"} \cup RangeCommands

(* C24: call takes the command name in any letter case and reads del as    *)
(* delete; a name that is no command of the engine, the name of one of its *)
(* other attributes included, raises AttributeError and leaves namespace   *)
(* and expiry entries as they were.                                        *)
C24_UnknownCommand ==
    [][last'.op = "call"
       => /\ Lower(last'.args[1]) = "del"
             => LET o == delete(redis, timeouts, last'.keys)
                IN last'.ret = o.ret /\ last'.err = o.err /\ redis' = o.redis
          /\ _normalize_command_name(last'.args[1]) \notin EmulatedCommands
             => /\ last'.err = "AttributeError"
                /\ redis' = redis
                /\ timeouts' = timeouts]_vars



(* C29: ttl and pttl of a key that does not exist return None, as they do  *)
(* for a key that exists and has no timeout.                               *)
C29_TtlOfAbsentKey ==
    [][(last'.op \in {"ttl", "pttl"} /\ last'.keys[1] \notin DOMAIN redis)
       => last'.err = NoError /\ last'.ret = None]_vars



(* C25: a zadd that succeeds returns the number of distinct members of its *)
(* batch that the sorted set did not hold, and zcard grows by that number; *)
(* every member of the batch then has the score given for it (the last     *)
(* one, if it is named twice), so a batch of members the set already holds *)
(* returns 0 and leaves zcard as it was.                                   *)
C25_ZaddCountsNewMembers ==
    [][(last'.op = "zadd" /\ last'.err = NoError)
       => LET name == last'.keys[1]
              batch == [i \in 1..(Len(last'.args) \div 2) |->
                           IF strict THEN [score |-> last'.args[2 * i - 1], member |-> last'.args[2 * i]]
                           ELSE [member |-> last'.args[2 * i - 1], score |-> last'.args[2 * i]]]
              new == {batch[i].member : i \in DOMAIN batch} \ DOMAIN ZMembers(redis, name)
          IN /\ last'.ret = IntV(Cardinality(new))
             /\ zcard(redis', timeouts', name).ret.v
                   = zcard(redis, timeouts, name).ret.v + Cardinality(new)
             /\ \A i \in DOMAIN batch :
                   (\A j \in DOMAIN batch : j > i => batch[j].member # batch[i].member)
                   => zscore(redis', timeouts', name, batch[i].member).ret = IntV(batch[i].score)]_vars

(* zadd of a and b returned 1: one of them was in the set, and both have   *)
(* the scores of the batch.                                                *)
C25_Witness ==
    /\ last.op = "zadd" /\ last.args = <<"a", 2, "b", 1>> /\ last.ret = IntV(1)
    /\ redis["k1"] = ZSetV([a |-> 2, b |-> 1])



(* Member m1 comes before member m2 in the order of sorted set z: by score *)
(* ascending, then by name ascending.                                      *)
Before(z, m1, m2) == z[m1] < z[m2] \/ (z[m1] = z[m2] /\ Ord(m1) < Ord(m2))

(* C26: whatever zadd, zincrby and zrem made of a sorted set with n        *)
(* members, zrank maps its members one-to-one onto 0..n-1 in the order     *)
(* 'score ascending, then member ascending', zrange(name, 0, -1) lists the *)
(* members in that order, and zrank of a non-member is None.               *)
C26_RankIsOrder ==
    \A name \in Keys :
        LET z == ZMembers(redis, name)
            n == Cardinality(DOMAIN z)
            rank(m) == zrank(redis, timeouts, name, m).ret
            listed == zrange(redis, timeouts, name, 0, -1, FALSE, FALSE).ret.v
        IN (name \in DOMAIN redis => redis[name].t = "zset")
           => /\ \A m \in DOMAIN z : rank(m).t = "int" /\ rank(m).v \in 0..(n - 1)
              /\ \A m1 \in DOMAIN z, m2 \in DOMAIN z :
                    /\ m1 # m2 => rank(m1) # rank(m2)
                    /\ Before(z, m1, m2) <=> rank(m1).v < rank(m2).v
              /\ Len(listed) = n
              /\ \A m \in DOMAIN z : listed[rank(m).v + 1] = m
              /\ \A m \in (Members \cup Keys) \ DOMAIN z : rank(m) = None

(* zrank returned 1 for a, which comes first by name and second by score.  *)
C26_Witness ==
    /\ last.op = "zrank" /\ last.args = <<"a">> /\ last.ret = IntV(1)
    /\ redis["k1"] = ZSetV([a |-> 2, b |-> 1])



(* The (member, score) tuples of zrange(name, 0, -1, withscores=True)      *)
(* whose score lies in min..max, as a range command returns them.          *)
InScoreRange(name, min, max) ==
    LET all == zrange(redis, timeouts, name, 0, -1, FALSE, TRUE).ret.v
        kept == SelectSeq(all, LAMBDA tpl : min <= tpl[2] /\ tpl[2] <= max)
    IN IF kept = <<>> THEN ListV(<<>>) ELSE TuplesV(kept)

(* C27: for min <= max and for min > max, zrangebyscore(name, min, max,    *)
(* withscores=True) returns the elements of zrange(name, 0, -1,            *)
(* withscores=True) with min <= score <= max in their order, zcount(name,  *)
(* min, max) the length of that list, and zrevrangebyscore(name, max, min, *)
(* withscores=True) its reverse.                                           *)
C27_ScoreRangeIsFilteredRange ==
    [][(/\ last'.op \in {"zrangebyscore", "zrevrangebyscore", "zcount"}
        /\ last'.op # "zcount" => last'.args[3] = None /\ last'.args[4] = None /\ last'.args[5]
        /\ last'.keys[1] \in DOMAIN redis => redis[last'.keys[1]].t = "zset")
       => LET name == last'.keys[1]
              min == IF last'.op = "zrevrangebyscore" THEN last'.args[2] ELSE last'.args[1]
              max == IF last'.op = "zrevrangebyscore" THEN last'.args[1] ELSE last'.args[2]
              expected == InScoreRange(name, min, max)
          IN /\ last'.err = NoError
             /\ last'.op = "zrangebyscore" => last'.ret = expected
             /\ last'.op = "zcount" => last'.ret = IntV(Len(expected.v))
             /\ last'.op = "zrevrangebyscore"
                => last'.ret.t = expected.t /\ last'.ret.v = Reverse(expected.v)]_vars

(* zrevrangebyscore returned both members, the higher score first.         *)
C27_Witness ==
    /\ last.op = "zrevrangebyscore" /\ last.args = <<2, 1, None, None, TRUE>>
    /\ last.ret = TuplesV(<<<<"a", 2>>, <<"b", 1>>>>)



RemovalOps == {"hdel", "srem", "spop", "smove", "zrem", "zremrangebyrank", "zremrangebyscore",
               "lpop", "rpop", "rpoplpush", "lrem"}

(* C28: when hdel, srem, spop, smove, zrem, zremrangebyrank,               *)
(* zremrangebyscore, lpop, rpop, rpoplpush or lrem takes the last element  *)
(* out of the collection under its (source) key, the key is gone: type is  *)
(* 'none' and exists is false.                                             *)
C28_LastRemovalDeletesKey ==
    [][(/\ last'.op \in RemovalOps
        /\ last'.err = NoError
        /\ last'.keys[1] \in DOMAIN redis
        /\ Truthy(redis[last'.keys[1]])
        /\ last'.keys[1] \in DOMAIN redis' => ~Truthy(redis'[last'.keys[1]]))
       => /\ type(redis', last'.keys[1]) = "none"
          /\ ~exists(redis', last'.keys[1])]_vars



(* How often x occurs in the lists under the keys of `keys` together.      *)
RECURSIVE Occurrences(_, _, _)
Occurrences(R, keys, x) ==
    IF keys = {} THEN 0
    ELSE LET k == CHOOSE k \in keys : TRUE
         IN Cardinality({i \in DOMAIN ListAt(R, k) : ListAt(R, k)[i] = x})
            + Occurrences(R, keys \ {k}, x)

(* A step in which rpoplpush is called, or brpoplpush returns.             *)
Moves ==
    \/ last'.op = "rpoplpush" /\ blocking' = blocking /\ wall' = wall
    \/ last'.op = "brpoplpush" /\ ReturnsB

(* C30: rpoplpush and brpoplpush from a list src to a dst that holds a     *)
(* value that is no list raise TypeError and leave src with every element  *)
(* it had; from an absent or empty src they return None and change         *)
(* nothing; and when they succeed, src and dst together hold the elements  *)
(* they held before, as often.                                             *)
C30_MoveAllOrNothing ==
    [][Moves
       => LET src == last'.keys[1]
              dst == last'.keys[2]
          IN /\ (HoldsList(src) /\ dst \in DOMAIN redis /\ redis[dst].t # "list")
                => /\ last'.err = "TypeError"
                   /\ ListAt(redis', src) = ListAt(redis, src)
                   /\ redis' = redis
             /\ src \notin DOMAIN redis
                => last'.err = NoError /\ last'.ret = None /\ redis' = redis
             /\ (last'.err = NoError /\ last'.ret # None)
                => \A x \in Members :
                      Occurrences(redis', {src, dst}, x) = Occurrences(redis, {src, dst}, x)]_vars



(* A step of a blocking pop: its call up to the first sleep or the return, *)
(* or a wake-up of its poll loop.                                          *)
PollsB == EntersB \/ (blocking # Idle /\ wall' # wall)

(* The candidate keys of the blocking pop that takes the step.             *)
CandidatesB ==
    IF blocking # Idle THEN blocking.keys
    ELSE IF CallB.op = "brpoplpush" THEN <<CallB.keys[1]>>
    ELSE CallB.keys

RECURSIVE RemovedB(_)
RemovedB(keys) ==
    IF keys = {} THEN 0
    ELSE LET k == CHOOSE k \in keys : TRUE
         IN Len(ListAt(redis, k)) - Len(ListAt(redis', k)) + RemovedB(keys \ {k})

(* C31: a blocking pop consumes only what it returns: a step of blpop,     *)
(* brpop or brpoplpush takes one element off its candidate lists together  *)
(* when it returns a value in that step and none otherwise, whatever       *)
(* strings the lists hold, the empty string included.                      *)
C31_PopsOnlyWhatItReturns ==
    [][PollsB
       => LET keys == {CandidatesB[i] : i \in DOMAIN CandidatesB}
              gives == blocking' = Idle /\ last'.err = NoError /\ last'.ret # None
          IN RemovedB(keys) = IF gives THEN 1 ELSE 0]_vars



(* C32: keys hold independent values: a command changes only the keys it   *)
(* names, so after sdiffstore, sinterstore or sunionstore, from one source *)
(* key or from several, sadd, srem and spop on dest leave every source as  *)
(* it was, and a change of a source leaves dest as it was.                 *)
C32_OnlyNamedKeysChange ==
    [][\A k \in Keys \ Range(last'.keys) : SameKey(k)]_vars



(* C33: after zrevrank(name, m), for a sorted set of n members under name: *)
(* the result is n - 1 - zrank(name, m) when m is a member, and it is      *)
(* None, with no error, when name is absent or m is no member, which is    *)
(* what zrank returns then.                                                *)
C33_RevRankMirrorsRank ==
    last.op = "zrevrank"
    => LET name == last.keys[1]
           m == last.args[1]
           rank == zrank(redis, timeouts, name, m)
       IN /\ last.err = NoError
          /\ last.err = rank.err
          /\ IF name \in DOMAIN redis /\ m \in DOMAIN redis[name].v
             THEN last.ret = IntV(SS_len(redis[name].v) - 1 - rank.ret.v)
             ELSE last.ret = None /\ rank.ret = None



(* C34: setnx(k, v) returns True exactly when k is not stored, and then k  *)
(* is stored, so of the calls that follow one another with no delete,      *)
(* sweep or other write of k between them only the first returns True; a   *)
(* call that finds k stored returns None and leaves the value and the      *)
(* expiry entry of k as they were.  set with xx on a key that is not       *)
(* stored writes nothing, and set with nx and xx writes nothing and        *)
(* returns None.                                                           *)
C34_SetnxTakesOnce ==
    [][LET k == last'.keys[1]
           unwritten == redis' = redis /\ timeouts' = timeouts
       IN /\ last'.op = "setnx"
             => /\ last'.err = NoError
                /\ (last'.ret = BoolV(TRUE)) = (k \notin DOMAIN redis)
                /\ k \in DOMAIN redis'
                /\ k \in DOMAIN redis => last'.ret = None /\ unwritten
                /\ k \notin DOMAIN redis => redis'[k] = StrV(last'.args[1])
          /\ (last'.op = "set" /\ last'.args[2].xx /\ ~last'.args[2].nx /\ k \notin DOMAIN redis)
             => unwritten
          /\ (last'.op = "set" /\ last'.args[2].xx /\ last'.args[2].nx)
             => unwritten /\ last'.ret = None /\ last'.err = NoError]_vars

(* A caller's setnx found the key taken with another value and an expiry   *)
(* entry.                                                                  *)
C34_Witness ==
    /\ last.op = "setnx"
    /\ last.ret = None
    /\ redis[last.keys[1]] # StrV(last.args[1])
    /\ last.keys[1] \in DOMAIN timeouts

====
